---- MODULE Spec2Model ----
(***************************************************************************)
(* The undertaker daemon of rucio: one loop instance (undertaker) calling  *)
(* run_once on a cadence, with its process-local ledger paused_dids.       *)
(*                                                                         *)
(* A DID is identified by its key (scope, name); the model writes a key as *)
(* a number.  One run_once call is split at its blocking collaborator      *)
(* calls: StartCycle is lines 76-88 (refresh, list_expired_dids, filter,   *)
(* early return), DeleteChunk is one iteration of the loop of lines 90-106 *)
(* together with the outer handler of lines 107-108.  Every read of        *)
(* datetime.utcnow() inside one such step returns the clock value now; the *)
(* clock advances between steps (Tick).                                    *)
(*                                                                         *)
(* The collaborators list_expired_dids and delete_dids are not part of the *)
(* daemon: a call returns or raises any Exception subclass, and the list   *)
(* returned is any list of keys, a key possibly more than once.  The       *)
(* variables from returned on are history: they record what the current    *)
(* cycle did and are read by the properties only.                          *)
(***************************************************************************)
EXTENDS Integers, Sequences, FiniteSets, TLC

\* ---------------------------------------------------------------- bounds
NKeys == 2          \* distinct (scope, name) keys of the catalog
MaxLen == 3         \* longest list list_expired_dids returns
MaxChunk == 2       \* largest chunk_size the instance is started with
MaxCycles == 2      \* cycles one behaviour runs
MaxTicks == 1       \* clock advances in one behaviour
MaxWorkers == 2     \* largest total_workers run() is called with
MaxFleetLen == 2    \* longest list list_expired_dids returns to a thread
MaxFleetCycles == 2 \* cycles one loop instance of run() runs
NDids == 2          \* (scope, name) pairs the opendata calls are made with

\* ------------------------------------------------------ program constants
MinBackoff == 600           \* randint(600, 2400), lower end
MaxBackoff == 2400          \* randint(600, 2400), upper end
DefaultChunkSize == 10      \* chunk_size: int = 10

Keys == 1..NKeys

VARIABLES
    now,            \* datetime.utcnow(), in seconds
    paused_dids,    \* {(scope, name): datetime}: function key -> retryNotBefore
    chunk_size,     \* the chunk_size bound into run_once by undertaker()
    pc,             \* "idle": between two run_once calls, "chunks": in the loop
    todo,           \* the chunks the loop of line 90 has not reached yet
    deleted,        \* METRICS counter undertaker.delete_dids
    contention,     \* METRICS counter delete_dids.exceptions.LocksDetected
    escaped,        \* an exception left run_once
    cycles,         \* run_once calls made
    ticks,          \* clock advances made
    returned,       \* what list_expired_dids returned in the current cycle
    filtered,       \* dids after the filter of line 84, current cycle
    ledger_in,      \* paused_dids as run_once received it, current cycle
    paused0,        \* paused_dids right after the refresh, current cycle
    refreshed_at,   \* the clock value the refresh compared with
    deleted0,       \* deleted at the start of the current cycle
    contention0,    \* contention at the start of the current cycle
    calls,          \* delete_dids calls of the current cycle, in order
    outcome,        \* how the last run_once call ended
    list_raised,    \* list_expired_dids raised in the current cycle
    ok_total,       \* sizes of all chunks delete_dids returned from, summed
    lock_batches,   \* chunks on which delete_dids raised a lock conflict
    args,           \* the arguments of the run() call
    main_pc,        \* where the caller of run() stands
    graceful_stop,  \* the module's threading.Event is set
    inst,           \* the undertaker() calls: one record per loop instance
    heap,           \* the dicts created at line 57, by identity
    nalloc,         \* dicts created so far
    by,             \* per dict and key: the instance that wrote the entry
    foreign_drop,   \* a filter dropped a key another instance quarantined
    kept_foreign,   \* a filter kept a key another instance's dict holds
    batch_max,      \* longest chunk an instance of run() passed to delete_dids
    removed_by,     \* per key: the instance whose delete_dids call removed it
    catalog,        \* table dids, per (scope, name): absent, open, closed, file
    od,             \* table dids_opendata, per (scope, name): the state, or none
    od_doi,         \* table of the DOIs, per (scope, name): the doi, <<>> if no row
    od_meta,        \* table of the metadata, per (scope, name): the meta, or none
    last            \* the last call of rucio.core.opendata and how it ended

\* the tables behind rucio.core.opendata
od_vars == <<catalog, od, od_doi, od_meta, last>>

\* the state of the loop instances run() starts
fleet_vars == <<args, main_pc, graceful_stop, inst, heap, nalloc, by,
                foreign_drop, kept_foreign, batch_max, removed_by>>

\* the state of the single loop instance, the two METRICS counters apart
cycle_rest == <<now, paused_dids, chunk_size, pc, todo, escaped,
                cycles, ticks, returned, filtered, ledger_in, paused0,
                refreshed_at, deleted0, contention0, calls, outcome,
                list_raised, ok_total, lock_batches>>

vars == <<now, paused_dids, chunk_size, pc, todo, deleted, contention, escaped,
          cycles, ticks, returned, filtered, ledger_in, paused0, refreshed_at,
          deleted0, contention0, calls, outcome, list_raised, ok_total,
          lock_batches, args, main_pc, graceful_stop, inst, heap, nalloc, by,
          foreign_drop, kept_foreign, batch_max, removed_by, catalog, od,
          od_doi, od_meta, last>>

\* ------------------------------------------------------------ exceptions
\* The classes run_once tells apart, and what str(e.args[0]) matches: one of
\* the four lock signatures, another text, or no args[0] at all.
DbClasses == {"DatabaseException", "DatabaseError", "UnsupportedOperation"}
Classes == {"RuleNotFound", "Exception"} \cup DbClasses
LockSignatures == {"ORACLE_RESOURCE_BUSY", "PSQL_LOCK_NOT_AVAILABLE",
                   "PSQL_PSYCOPG_LOCK_NOT_AVAILABLE", "MYSQL_LOCK_NOWAIT"}
Messages == LockSignatures \cup {"other", "noargs"}
Failures == [cls : Classes, msg : Messages]
Ok == [cls |-> "none", msg |-> "none"]

\* line 100: the four match() calls, or-ed
MatchesLock(msg) == msg \in LockSignatures

\* mutant: the inner try has no handler for RuleNotFound
ClassifyGoneAborts(e) ==
    IF e = Ok THEN "ok"
    ELSE IF e.cls \in DbClasses
         THEN IF e.msg = "noargs" THEN "abort"
              ELSE IF MatchesLock(e.msg) THEN "lock" ELSE "dberr"
    ELSE "abort"

\* mutant: the four expressions are matched against the text of every
\* exception that is not RuleNotFound, whatever its class
ClassifyByTextOnly(e) ==
    IF e = Ok THEN "ok"
    ELSE IF e.cls = "RuleNotFound" THEN "gone"
    ELSE IF e.msg = "noargs" THEN "abort"
    ELSE IF MatchesLock(e.msg) THEN "lock"
    ELSE IF e.cls \in DbClasses THEN "dberr" ELSE "abort"

\* lines 97-106: which handler of the inner try takes the exception.
\*   "gone"  except RuleNotFound: logged, loop goes on
\*   "lock"  DB class, lock signature: quarantine, loop goes on
\*   "dberr" DB class, other text: logged, loop goes on
\*   "abort" no inner handler (or e.args[0] raises IndexError inside the
\*           handler): the exception reaches the outer handler of line 107
Classify(e) ==
    IF e = Ok THEN "ok"
    ELSE IF e.cls = "RuleNotFound" THEN "gone"
    ELSE IF e.cls \in DbClasses
         THEN IF e.msg = "noargs" THEN "abort"
              ELSE IF MatchesLock(e.msg) THEN "lock" ELSE "dberr"
    ELSE "abort"

\* The exception as the handlers see it: its family of classes
Family(e) ==
    IF e = Ok THEN "none"
    ELSE IF e.cls = "RuleNotFound" THEN "RuleNotFound"
    ELSE IF e.cls \in DbClasses THEN "db" ELSE "other"

\* delete_dids reports a lock conflict: one of the database classes, with a
\* text one of the four signatures matches
IsLockConflict(e) == e # Ok /\ e.cls \in DbClasses /\ MatchesLock(e.msg)

\* What the spec calls Unclassified: a failure that is not RuleNotFound and
\* whose text matches none of the four signatures
Unclassified(e) == e # Ok /\ e.cls # "RuleNotFound" /\ ~MatchesLock(e.msg)

\* mutant: the outer handler catches the database classes only
OuterCatchesDbOnly(e) == e.cls \in DbClasses

\* lines 107-108: except Exception catches every failure; nothing is re-raised
OuterCatches(e) == e.cls \in Classes

\* ----------------------------------------------------------------- helpers
RECURSIVE SeqSum(_)
SeqSum(s) == IF s = <<>> THEN 0 ELSE Head(s) + SeqSum(Tail(s))

RECURSIVE Flatten(_)
Flatten(ss) == IF ss = <<>> THEN <<>> ELSE Head(ss) \o Flatten(Tail(ss))

Range(s) == {s[i] : i \in 1..Len(s)}

\* random.randint(a, b): an integer of a..b, both ends included; the model
\* draws the two ends
Randint(a, b) == {a, b}

\* mutant: the backoff starts at one minute
BackoffFromOneMinute == Randint(60, MaxBackoff)

\* line 102: randint(600, 2400), the backoff in seconds
Backoff == Randint(MinBackoff, MaxBackoff)

\* mutant: a successful chunk counts as one deletion
CountedOne(chunk) == 1

\* line 96: what one successful chunk adds to undertaker.delete_dids
Counted(chunk) == Len(chunk)

\* mutant: the contention counter counts the keys of the chunk
LockedPerKey(chunk) == Len(chunk)

\* line 103: .inc(), what one chunk with a lock conflict adds to the
\* LocksDetected counter
Locked(chunk) == 1

\* lines 57-68: the dict undertaker() creates once and binds into run_once
LedgerArg == paused_dids

\* rucio.common.utils.chunks(l, n): consecutive slices l[i:i+n]
RECURSIVE chunks(_, _)
chunks(l, n) ==
    IF l = <<>> THEN <<>>
    ELSE IF Len(l) <= n THEN <<l>>
    ELSE <<SubSeq(l, 1, n)>> \o chunks(SubSeq(l, n + 1, Len(l)), n)

\* mutant: an entry never expires
ExpiredNever(t, rnb) == FALSE

\* mutant: an entry expires as soon as the clock reaches it
ExpiredAtBoundary(t, rnb) == t >= rnb

\* lines 77-80: drop every entry the clock has passed
Expired(t, rnb) == t > rnb
Refresh(p, t) ==
    LET keep == {k \in DOMAIN p : ~Expired(t, p[k])}
    IN  [k \in keep |-> p[k]]

\* The keys of a chunk that ledger p holds back at time t: an entry is there
\* and t has not passed it
Live(chunk, p, t) == {k \in Range(chunk) : k \in DOMAIN p /\ ~Expired(t, p[k])}

\* mutant: the candidates are not filtered
NoFilter(dids, p) == dids

\* line 84
RECURSIVE FilterPaused(_, _)
FilterPaused(dids, p) ==
    IF dids = <<>> THEN <<>>
    ELSE IF Head(dids) \in DOMAIN p THEN FilterPaused(Tail(dids), p)
    ELSE <<Head(dids)>> \o FilterPaused(Tail(dids), p)

\* mutant: only the first did of the chunk is paused
QuarantineFirst(p, chunk, t, r) ==
    [k \in DOMAIN p \cup {chunk[1]} |-> IF k = chunk[1] THEN t + r[1] ELSE p[k]]

\* mutant: the handler rebuilds the dict from the failed chunk alone
QuarantineOnly(p, chunk, t, r) ==
    [k \in Range(chunk) |-> t + r[1]]

\* lines 101-102: one assignment per did of the chunk, in order; r[i] is the
\* randint draw of the i-th did, a later assignment overwrites an earlier one
LastIndex(chunk, k) ==
    CHOOSE i \in 1..Len(chunk) :
        chunk[i] = k /\ \A j \in (i + 1)..Len(chunk) : chunk[j] # k
Quarantine(p, chunk, t, r) ==
    [k \in DOMAIN p \cup Range(chunk) |->
        IF k \in Range(chunk) THEN t + r[LastIndex(chunk, k)] ELSE p[k]]

\* ------------------------------------------------------------------ inputs
RECURSIVE SeqsUpTo(_, _)
SeqsUpTo(S, n) ==
    IF n = 0 THEN {<<>>}
    ELSE LET shorter == SeqsUpTo(S, n - 1)
         IN  shorter \cup {Append(s, x) : s \in {q \in shorter : Len(q) = n - 1}, x \in S}

CandidateLists == SeqsUpTo(Keys, MaxLen)
\* what one call of list_expired_dids does: return a list, or raise
Returns(l) == [exc |-> Ok, dids |-> l]
Raises(e) == [exc |-> e, dids |-> <<>>]
ListResults == {Returns(l) : l \in CandidateLists} \cup {Raises(e) : e \in Failures}
ChunkSizes == 1..MaxChunk
\* by how much the clock advances in one step: up to the shortest backoff
\* exactly, or just past it
TickSteps == {MinBackoff, MinBackoff + 1}

\* -------------------------------------------------------------------- Init
\* undertaker(): paused_dids = {} (line 57), chunk_size bound by partial
InitCycle(k) ==
    /\ now = 0
    /\ paused_dids = <<>>
    /\ chunk_size = k
    /\ pc = "idle"
    /\ todo = <<>>
    /\ deleted = 0
    /\ contention = 0
    /\ escaped = FALSE
    /\ cycles = 0
    /\ ticks = 0
    /\ returned = <<>>
    /\ filtered = <<>>
    /\ ledger_in = <<>>
    /\ paused0 = <<>>
    /\ refreshed_at = 0
    /\ deleted0 = 0
    /\ contention0 = 0
    /\ calls = <<>>
    /\ outcome = "none"
    /\ list_raised = FALSE
    /\ ok_total = 0
    /\ lock_batches = 0

Dids == 1..NDids

\* no call of rucio.core.opendata has been made: the tables are empty
NoOpendata ==
    /\ catalog = [d \in Dids |-> "absent"]
    /\ od = [d \in Dids |-> "none"]
    /\ od_doi = [d \in Dids |-> <<>>]
    /\ od_meta = [d \in Dids |-> "none"]
    /\ last = [op |-> "none", did |-> 0, exc |-> "none"]

Workers == 1..MaxWorkers

\* an undertaker() call that has not been made
NoInstance == [st |-> "none", led |-> 0, once |-> FALSE, chunk_size |-> 0,
               cycles |-> 0, todo |-> <<>>]

\* run() has not been called: no thread, no dict, the Event clear
NoFleet ==
    /\ args = [once |-> FALSE, total_workers |-> 1, chunk_size |-> DefaultChunkSize]
    /\ main_pc = "none"
    /\ graceful_stop = FALSE
    /\ inst = [i \in Workers |-> NoInstance]
    /\ heap = [id \in Workers |-> <<>>]
    /\ nalloc = 0
    /\ by = [id \in Workers |-> [k \in Keys |-> 0]]
    /\ foreign_drop = FALSE
    /\ kept_foreign = FALSE
    /\ batch_max = 0
    /\ removed_by = [k \in Keys |-> 0]

\* one undertaker() call, seen from inside: its dict and its run_once calls
InitWith(k) == InitCycle(k) /\ NoFleet /\ NoOpendata

Init == \E k \in ChunkSizes : InitWith(k)

\* ----------------------------------------------------------------- actions
\* An exception e reaching the outer handler of lines 107-108
Raise(e) ==
    /\ pc' = "idle"
    /\ todo' = <<>>
    /\ escaped' = ~OuterCatches(e)
    /\ outcome' = "failed"

\* mutant: the loop ends after the first chunk an inner handler took
StopAfterChunk ==
    /\ todo' = <<>>
    /\ pc' = "idle"
    /\ outcome' = "returned"
    /\ escaped' = escaped

\* The position of the loop of line 90 after a chunk whose exception, if
\* any, an inner handler took
Advance ==
    /\ todo' = Tail(todo)
    /\ pc' = IF Tail(todo) = <<>> THEN "idle" ELSE "chunks"
    /\ outcome' = IF Tail(todo) = <<>> THEN "returned" ELSE outcome
    /\ escaped' = escaped

\* run_once, lines 76-88; res is what list_expired_dids does
StartCycle(res) ==
    /\ pc = "idle"
    /\ ~escaped
    /\ cycles < MaxCycles
    /\ cycles' = cycles + 1
    /\ ledger_in' = LedgerArg
    /\ paused_dids' = Refresh(LedgerArg, now)
    /\ paused0' = paused_dids'
    /\ refreshed_at' = now
    /\ deleted0' = deleted
    /\ contention0' = contention
    /\ calls' = <<>>
    /\ list_raised' = (res.exc # Ok)
    /\ IF res.exc # Ok
       THEN /\ returned' = <<>>
            /\ filtered' = <<>>
            /\ Raise(res.exc)
       ELSE /\ returned' = res.dids
            /\ filtered' = FilterPaused(res.dids, paused_dids')
            /\ todo' = chunks(filtered', chunk_size)
            /\ pc' = IF filtered' = <<>> THEN "idle" ELSE "chunks"
            /\ outcome' = IF filtered' = <<>> THEN "nowork" ELSE "running"
            /\ escaped' = escaped
    /\ UNCHANGED <<now, chunk_size, deleted, contention, ticks, ok_total,
                   lock_batches>>
    /\ UNCHANGED fleet_vars
    /\ UNCHANGED od_vars

\* One iteration of the loop of lines 90-106; e is what delete_dids does
\* with the chunk: Ok, or the failure it raises
DeleteChunk(e) ==
    /\ pc = "chunks"
    /\ todo # <<>>
    /\ LET chunk == Head(todo)
           kind == Classify(e)
       IN  /\ calls' = Append(calls, [chunk |-> chunk, kind |-> kind, at |-> now,
                                    uncl |-> Unclassified(e),
                                    live |-> Live(chunk, paused_dids, now),
                                    family |-> Family(e),
                                    sig |-> (e # Ok /\ MatchesLock(e.msg))])
           /\ ok_total' = IF e = Ok THEN ok_total + Len(chunk) ELSE ok_total
           /\ lock_batches' = IF IsLockConflict(e) THEN lock_batches + 1
                                                  ELSE lock_batches
           /\ \/ /\ kind = "ok"
                 /\ deleted' = deleted + Counted(chunk)
                 /\ UNCHANGED <<paused_dids, contention>>
                 /\ Advance
              \/ /\ kind \in {"gone", "dberr"}
                 /\ UNCHANGED <<paused_dids, deleted, contention>>
                 /\ Advance
              \/ /\ kind = "lock"
                 /\ \E r \in [1..Len(chunk) -> Backoff] :
                        paused_dids' = Quarantine(paused_dids, chunk, now, r)
                 /\ contention' = contention + Locked(chunk)
                 /\ UNCHANGED deleted
                 /\ Advance
              \/ /\ kind = "abort"
                 /\ UNCHANGED <<paused_dids, deleted, contention>>
                 /\ Raise(e)
    /\ UNCHANGED <<now, chunk_size, cycles, ticks, returned, filtered, ledger_in, paused0,
                   refreshed_at, deleted0, contention0, list_raised>>
    /\ UNCHANGED fleet_vars
    /\ UNCHANGED od_vars

\* The clock advances
Tick(d) ==
    /\ ticks < MaxTicks
    /\ ticks' = ticks + 1
    /\ now' = now + d
    /\ UNCHANGED <<paused_dids, chunk_size, pc, todo, deleted, contention,
                   escaped, cycles, returned, filtered, ledger_in, paused0,
                   refreshed_at, deleted0, contention0, calls, outcome,
                   list_raised, ok_total, lock_batches>>
    /\ UNCHANGED fleet_vars
    /\ UNCHANGED od_vars

Next ==
    \/ \E res \in ListResults : StartCycle(res)
    \/ \E e \in {Ok} \cup Failures : DeleteChunk(e)
    \/ \E d \in TickSteps : Tick(d)

Spec == Init /\ [][Next]_vars

\* ---------------------------------------------------------------- scenario
\* The concrete scenario: list_expired_dids returns 25 DIDs, chunk_size is
\* the default 10, delete_dids raises a lock conflict (PostgreSQL's text) on
\* the second chunk and succeeds on the others.
ScenarioDids == [i \in 1..25 |-> i]
ScenarioLock == [cls |-> "DatabaseException", msg |-> "PSQL_LOCK_NOT_AVAILABLE"]
ScenarioOutcome(i) == IF i = 2 THEN ScenarioLock ELSE Ok

InitScenario == InitWith(DefaultChunkSize)

ScenarioStart == cycles = 0 /\ StartCycle(Returns(ScenarioDids))
ScenarioDelete == DeleteChunk(ScenarioOutcome(Len(calls) + 1))

NextScenario ==
    \/ ScenarioStart
    \/ ScenarioDelete
    \/ \E d \in TickSteps : Tick(d)

SpecScenario == InitScenario /\ [][NextScenario]_vars

\* The loop instance under fairness: run_daemon calls run_once again after
\* each sleep as long as cycles are left, and a delete_dids call under way
\* returns or raises. Nothing makes the clock advance.
RetryFairness ==
    /\ WF_vars(\E res \in ListResults : StartCycle(res))
    /\ WF_vars(\E e \in {Ok} \cup Failures : DeleteChunk(e))

SpecRetry == Init /\ [][Next]_vars /\ RetryFairness

\* ------------------------------------------------- run(): the loop instances
\* run() with its threads. Each undertaker() call is a loop instance: it
\* creates its dict, then run_daemon calls run_once until the Event is set,
\* or once. The clock stands still here; the cycle is the one of StartCycle
\* and DeleteChunk, on the dict of the instance.
RunArgs == [once : BOOLEAN, total_workers : Workers, chunk_size : ChunkSizes]

FleetLists == SeqsUpTo(Keys, MaxFleetLen)
FleetListResults == {Returns(l) : l \in FleetLists} \cup {Raises(e) : e \in Failures}

InitFleet ==
    /\ InitCycle(DefaultChunkSize)
    /\ NoOpendata
    /\ args \in RunArgs
    /\ main_pc = "start"
    /\ graceful_stop = FALSE
    /\ inst = [i \in Workers |-> NoInstance]
    /\ heap = [id \in Workers |-> <<>>]
    /\ nalloc = 0
    /\ by = [id \in Workers |-> [k \in Keys |-> 0]]
    /\ foreign_drop = FALSE
    /\ kept_foreign = FALSE
    /\ batch_max = 0
    /\ removed_by = [k \in Keys |-> 0]

\* mutant: paused_dids is one dict of the module, shared by every call
SharedLedger(n) == 1

\* line 57: paused_dids = {} creates a dict of its own in every call: the
\* one after the n dicts created before
NewLedger(n) == n + 1

\* mutant: run_daemon is given an Event of its own that nobody sets
FreshEvent == FALSE

\* line 60: graceful_stop=graceful_stop, the module's Event of line 49
StopFlagArg == graceful_stop

\* lines 127-128: if once: undertaker(once) - one call, in the caller's
\* thread, with the default chunk_size and sleep_time of line 53
OnceCall == [st |-> "new", led |-> 0, once |-> TRUE,
             chunk_size |-> DefaultChunkSize, cycles |-> 0, todo |-> <<>>]

\* lines 131-132: Thread(target=undertaker, kwargs={'once': once,
\* 'chunk_size': chunk_size, 'sleep_time': sleep_time})
ThreadCall == [st |-> "new", led |-> 0, once |-> args.once,
               chunk_size |-> args.chunk_size, cycles |-> 0, todo |-> <<>>]

\* lines 124-125: is_old_db() is true and run() raises DatabaseException
RunRaises ==
    /\ main_pc = "start"
    /\ main_pc' = "raised"
    /\ UNCHANGED <<args, graceful_stop, inst, heap, nalloc, by, foreign_drop,
                   kept_foreign, batch_max, deleted, contention>>
    /\ UNCHANGED cycle_rest
    /\ UNCHANGED od_vars
    /\ UNCHANGED removed_by

\* lines 127-133: the one call in once mode, else total_workers threads,
\* created and started
RunStart ==
    /\ main_pc = "start"
    /\ IF args.once
       THEN /\ inst' = [i \in Workers |-> IF i = 1 THEN OnceCall ELSE NoInstance]
            /\ main_pc' = "inline"
       ELSE /\ inst' = [i \in Workers |->
                          IF i <= args.total_workers THEN ThreadCall ELSE NoInstance]
            /\ main_pc' = "test"
    /\ UNCHANGED <<args, graceful_stop, heap, nalloc, by, foreign_drop,
                   kept_foreign, batch_max, deleted, contention>>
    /\ UNCHANGED cycle_rest
    /\ UNCHANGED od_vars
    /\ UNCHANGED removed_by

\* line 128: undertaker(once) has returned, and run() with it
RunReturn ==
    /\ main_pc = "inline"
    /\ inst[1].st = "dead"
    /\ main_pc' = "returned"
    /\ UNCHANGED <<args, graceful_stop, inst, heap, nalloc, by, foreign_drop,
                   kept_foreign, batch_max, deleted, contention>>
    /\ UNCHANGED cycle_rest
    /\ UNCHANGED od_vars
    /\ UNCHANGED removed_by

\* line 137: while threads[0].is_alive()
JoinTest ==
    /\ main_pc = "test"
    /\ main_pc' = IF inst[1].st # "dead" THEN "joining" ELSE "returned"
    /\ UNCHANGED <<args, graceful_stop, inst, heap, nalloc, by, foreign_drop,
                   kept_foreign, batch_max, deleted, contention>>
    /\ UNCHANGED cycle_rest
    /\ UNCHANGED od_vars
    /\ UNCHANGED removed_by

\* line 138: [t.join(timeout=3.14) for t in threads] - each join returns
\* when its thread has ended or after 3.14 s, whichever is first
JoinRound ==
    /\ main_pc = "joining"
    /\ main_pc' = "test"
    /\ UNCHANGED <<args, graceful_stop, inst, heap, nalloc, by, foreign_drop,
                   kept_foreign, batch_max, deleted, contention>>
    /\ UNCHANGED cycle_rest
    /\ UNCHANGED od_vars
    /\ UNCHANGED removed_by

\* lines 111-115: stop() sets the Event
Stop ==
    /\ main_pc # "none"
    /\ ~graceful_stop
    /\ graceful_stop' = TRUE
    /\ UNCHANGED <<args, main_pc, inst, heap, nalloc, by, foreign_drop,
                   kept_foreign, batch_max, deleted, contention>>
    /\ UNCHANGED cycle_rest
    /\ UNCHANGED od_vars
    /\ UNCHANGED removed_by

\* lines 53-57: the call begins and creates its dict
UndertakerStart(i) ==
    /\ inst[i].st = "new"
    /\ nalloc < MaxWorkers
    /\ nalloc' = nalloc + 1
    /\ inst' = [inst EXCEPT ![i].st = "loop", ![i].led = NewLedger(nalloc)]
    /\ UNCHANGED <<args, main_pc, graceful_stop, heap, by, foreign_drop,
                   kept_foreign, batch_max, deleted, contention>>
    /\ UNCHANGED cycle_rest
    /\ UNCHANGED od_vars
    /\ UNCHANGED removed_by

\* run_daemon after a cycle: in once mode it returns, else it sleeps and
\* tests the Event again
AfterCycle(me) == IF me.once THEN "dead" ELSE "loop"

\* where the instance stands after an exception of its cycle: back in
\* run_daemon if line 107 caught it, ended if it left run_once
AfterRaise(me, e) == IF OuterCatches(e) THEN AfterCycle(me) ELSE "dead"

\* run_daemon finds the Event set at the head of its loop and returns
Exit(i) ==
    /\ inst[i].st = "loop"
    /\ StopFlagArg
    /\ inst' = [inst EXCEPT ![i].st = "dead"]
    /\ UNCHANGED <<args, main_pc, graceful_stop, heap, nalloc, by,
                   foreign_drop, kept_foreign, batch_max, deleted, contention>>
    /\ UNCHANGED cycle_rest
    /\ UNCHANGED od_vars
    /\ UNCHANGED removed_by

\* line 102 in a thread: what randint(600, 2400) returns. Time stands still
\* here and no entry runs out, so one value stands for all of them.
FleetBackoff == {MinBackoff}

\* keys that the dict of another instance holds
ForeignKeys(i) ==
    {k \in Keys : \E j \in Workers :
        /\ j # i /\ inst[j].led # 0 /\ inst[j].led # inst[i].led
        /\ k \in DOMAIN heap[inst[j].led]}

\* run_daemon finds the Event clear and calls run_once: lines 73-88 on the
\* dict of the instance
BeginCycle(i, res) ==
    LET me == inst[i]
        p == Refresh(heap[me.led], now)
        f == FilterPaused(res.dids, p)
    IN  /\ me.st = "loop"
        /\ ~StopFlagArg
        /\ me.cycles < MaxFleetCycles
        /\ heap' = [heap EXCEPT ![me.led] = p]
        /\ by' = [by EXCEPT ![me.led] =
                     [k \in Keys |-> IF k \in DOMAIN p THEN @[k] ELSE 0]]
        /\ IF res.exc # Ok
           THEN /\ inst' = [inst EXCEPT ![i].cycles = @ + 1, ![i].todo = <<>>,
                                        ![i].st = AfterRaise(me, res.exc)]
                /\ UNCHANGED <<foreign_drop, kept_foreign>>
           ELSE /\ inst' = [inst EXCEPT ![i].cycles = @ + 1,
                                        ![i].todo = chunks(f, me.chunk_size),
                                        ![i].st = IF f = <<>> THEN AfterCycle(me)
                                                              ELSE "chunks"]
                /\ foreign_drop' =
                      (foreign_drop \/ \E k \in Range(res.dids) \ Range(f) :
                                          by[me.led][k] # i)
                /\ kept_foreign' =
                      (kept_foreign \/ Range(f) \cap ForeignKeys(i) # {})
        /\ UNCHANGED <<args, main_pc, graceful_stop, nalloc, batch_max,
                       deleted, contention>>
        /\ UNCHANGED cycle_rest
        /\ UNCHANGED od_vars
        /\ UNCHANGED removed_by

\* mutant: the for loop ends when the Event is set
RemainingUnlessStopped(left, stop) == IF stop THEN <<>> ELSE Tail(left)

\* line 90: the for loop goes on to the next chunk; it does not test the
\* Event
Remaining(left, stop) == Tail(left)

\* lines 90-108 for the next chunk of instance i, delete_dids ending with e
FleetDeleteStep(i, e) ==
    LET me == inst[i]
        chunk == Head(me.todo)
        kind == Classify(e)
        rest == IF kind = "abort" THEN <<>> ELSE Remaining(me.todo, StopFlagArg)
    IN  /\ me.st = "chunks"
        /\ batch_max' = IF Len(chunk) > batch_max THEN Len(chunk) ELSE batch_max
        /\ inst' = [inst EXCEPT ![i].todo = rest,
                                ![i].st = IF kind = "abort" THEN AfterRaise(me, e)
                                          ELSE IF rest = <<>> THEN AfterCycle(me)
                                          ELSE "chunks"]
        /\ deleted' = IF kind = "ok" THEN deleted + Counted(chunk) ELSE deleted
        /\ contention' = IF kind = "lock" THEN contention + Locked(chunk)
                                          ELSE contention
        /\ IF kind = "lock"
           THEN /\ \E r \in [1..Len(chunk) -> FleetBackoff] :
                      heap' = [heap EXCEPT ![me.led] = Quarantine(@, chunk, now, r)]
                /\ by' = [by EXCEPT ![me.led] =
                             [k \in Keys |-> IF k \in Range(chunk) THEN i ELSE @[k]]]
           ELSE UNCHANGED <<heap, by>>
        /\ UNCHANGED <<args, main_pc, graceful_stop, nalloc, foreign_drop,
                       kept_foreign>>
        /\ UNCHANGED cycle_rest
        /\ UNCHANGED od_vars

\* the same, with nothing said about what delete_dids did to the catalog
FleetDelete(i, e) == FleetDeleteStep(i, e) /\ UNCHANGED removed_by

NextFleet ==
    \/ RunRaises
    \/ RunStart
    \/ RunReturn
    \/ JoinTest
    \/ JoinRound
    \/ Stop
    \/ \E i \in Workers : UndertakerStart(i)
    \/ \E i \in Workers : Exit(i)
    \/ \E i \in Workers : \E res \in FleetListResults : BeginCycle(i, res)
    \/ \E i \in Workers : \E e \in {Ok} \cup Failures : FleetDelete(i, e)

SpecFleet == InitFleet /\ [][NextFleet]_vars

\* Each collaborator call returns and every thread that can take a step gets
\* to take it: the steps of the caller of run() and, per instance, the start
\* of the call, the return of run_daemon and the chunks of a cycle under
\* way. Nothing makes a sleeping instance begin a cycle, and nothing makes
\* anyone call stop().
FleetFairness ==
    /\ WF_vars(RunStart \/ RunReturn \/ JoinTest \/ JoinRound)
    /\ \A i \in Workers :
          WF_vars(UndertakerStart(i) \/ Exit(i)
                  \/ \E e \in {Ok} \cup Failures : FleetDelete(i, e))

SpecFleetFair == InitFleet /\ [][NextFleet]_vars /\ FleetFairness

\* --------------------------------------- two threads on overlapping lists
\* Two threads whose lists may hold the same dids, and a delete_dids that
\* removes the dids of a chunk it returns from and raises RuleNotFound for a
\* chunk holding a did that is already removed. Nobody calls stop().
InitOverlap ==
    /\ InitFleet
    /\ ~args.once
    /\ args.total_workers = MaxWorkers

\* a did of the chunk has been removed by a delete_dids call
HoldsRemoved(chunk) == \E k \in Range(chunk) : removed_by[k] # 0

\* how delete_dids can end on the chunk
OverlapOutcomes(chunk) ==
    IF HoldsRemoved(chunk) THEN {e \in Failures : e.cls = "RuleNotFound"}
                           ELSE {Ok} \cup Failures

\* lines 90-108 for the next chunk of instance i, against that delete_dids
OverlapDelete(i) ==
    /\ inst[i].st = "chunks"
    /\ LET chunk == Head(inst[i].todo)
       IN  \E e \in OverlapOutcomes(chunk) :
              /\ FleetDeleteStep(i, e)
              /\ removed_by' = IF e = Ok
                                THEN [k \in Keys |-> IF k \in Range(chunk)
                                                     THEN i ELSE removed_by[k]]
                                ELSE removed_by

NextOverlap ==
    \/ RunStart
    \/ JoinTest
    \/ JoinRound
    \/ \E i \in Workers : UndertakerStart(i)
    \/ \E i \in Workers : \E res \in FleetListResults : BeginCycle(i, res)
    \/ \E i \in Workers : OverlapDelete(i)

SpecOverlap == InitOverlap /\ [][NextOverlap]_vars

\* ------------------------------------------------- rucio.core.opendata
\* The calls of rucio.core.opendata on the tables dids_opendata, DOI and
\* metadata, one transaction per call: a call that raises leaves the tables
\* as they were. The catalog (table dids) changes by add_did and
\* set_status(open=False), as in the tests.
States == {"DRAFT", "PUBLIC", "SUSPENDED"}

\* the characters \d matches, and those of the class [-._;()/:A-Za-z0-9]
DigitChars == {"0", "1", "2", "3", "4", "5", "6", "7", "8", "9"}
LetterChars ==
    {"a", "b", "c", "d", "e", "f", "g", "h", "i", "j", "k", "l", "m",
     "n", "o", "p", "q", "r", "s", "t", "u", "v", "w", "x", "y", "z",
     "A", "B", "C", "D", "E", "F", "G", "H", "I", "J", "K", "L", "M",
     "N", "O", "P", "Q", "R", "S", "T", "U", "V", "W", "X", "Y", "Z"}
SuffixChars == DigitChars \cup LetterChars \cup {"-", ".", "_", ";", "(", ")", "/", ":"}

\* 10\.\d{4,9}/[-._;()/:A-Za-z0-9]+ over the whole of c
MatchesWhole(c) ==
    \E n \in 4..9 :
        /\ Len(c) >= n + 5
        /\ c[1] = "1" /\ c[2] = "0" /\ c[3] = "."
        /\ \A i \in 4..(n + 3) : c[i] \in DigitChars
        /\ c[n + 4] = "/"
        /\ \A i \in (n + 5)..Len(c) : c[i] \in SuffixChars

\* line 472: match(r'^10\.\d{4,9}/[-._;()/:A-Za-z0-9]+$', doi); $ also
\* matches before a newline that ends the string
MatchesDoi(c) ==
    \/ MatchesWhole(c)
    \/ Len(c) > 0 /\ c[Len(c)] = "\n" /\ MatchesWhole(SubSeq(c, 1, Len(c) - 1))

\* DOIs the calls are made with, as strings of characters
DoiA == <<"1", "0", ".", "1", "2", "3", "4", "/", "a">>
DoiB == <<"1", "0", ".", "1", "2", "3", "4", "5", "6", "7", "8", "9", "/",
          "B", "-", "1", ".", "(", "x", ")">>
DoiShort == <<"1", "0", ".", "1", "2", "3", "/", "a">>
BadDois ==
    {DoiShort,
     <<"1", "0", ".", "1", "2", "3", "4", "5", "6", "7", "8", "9", "0", "/", "a">>,
     <<"1", "0", ".", "1", "2", "3", "4", "/">>,
     <<"1", "0", ".", "1", "2", "3", "4", "a">>,
     <<"1", "0", ".", "1", "2", "3", "4", "/", "a", " ", "b">>,
     <<"1", "1", ".", "1", "2", "3", "4", "/", "a">>,
     <<"d", "o", "i", ":", "1", "0", ".", "1", "2", "3", "4", "/", "a">>,
     <<>>}
\* DoiA followed by a newline
DoiNewline == DoiA \o <<"\n">>
DoiStrings == {DoiA, DoiB, DoiNewline} \cup BadDois

\* the doi argument: not given (None), a string, or another object
NoDoiArg == [given |-> FALSE, str |-> TRUE, chars |-> <<>>]
NotStr == [given |-> TRUE, str |-> FALSE, chars |-> <<>>]
DoiArgs ==
    {NoDoiArg, NotStr}
        \cup {[given |-> TRUE, str |-> TRUE, chars |-> c] : c \in DoiStrings}

\* the meta argument: not given (None), a dict, a string holding the JSON
\* of a dict, of a list, or no JSON at all, or a list
Metas == {"M1", "M2"}
NoMetaArg == [given |-> FALSE, type |-> "dict", val |-> "none"]
MetaArgs ==
    {NoMetaArg}
        \cup {[given |-> TRUE, type |-> "dict", val |-> m] : m \in Metas}
        \cup {[given |-> TRUE, type |-> "str_dict", val |-> m] : m \in Metas}
        \cup {[given |-> TRUE, type |-> t, val |-> "none"] :
                 t \in {"str_list", "str_bad", "list"}}

\* the arguments update_opendata_did is called with next to the other
\* calls: every state, a meta that is accepted and one that is not, a doi
\* that is accepted and one that is not
DidDoiArgs ==
    {NoDoiArg} \cup {[given |-> TRUE, str |-> TRUE, chars |-> c] : c \in {DoiA, DoiShort}}
DidMetaArgs ==
    {NoMetaArg, [given |-> TRUE, type |-> "dict", val |-> "M1"],
     [given |-> TRUE, type |-> "list", val |-> "none"]}

\* the doi update_opendata_doi is called with next to the other calls
SomeDoiArgs == (DidDoiArgs \ {NoDoiArg}) \cup {NotStr}

\* the state argument: not given (None) or a member of OpenDataDIDState
StateArgs == {"none"} \cup States

\* the three tables as one value, and the result of a call on them
Tables == [od |-> od, doi |-> od_doi, meta |-> od_meta]
Raised(t, e) == [exc |-> e, t |-> t]
Done(t) == [exc |-> "none", t |-> t]

\* mutant: what the call wrote before it raised is kept
KeepPartial(before, r) == r.t

\* @transactional_session: commit when the call returns, roll back when it
\* raises
Transactional(before, r) == IF r.exc = "none" THEN r.t ELSE before

\* lines 304-318: a row of dids_opendata, read in a session of its own
check_opendata_did_exists(d) == od[d] # "none"

\* mutant: SUSPENDED can be set from DRAFT
SuspendFromWrong(before) == FALSE

\* line 446: SUSPENDED cannot be set from DRAFT
SuspendRefused(before) == before = "DRAFT"

\* mutant: DRAFT can be set from every state
DraftFromWrong(before) == FALSE

\* line 416: DRAFT can be set from DRAFT only
DraftRefused(before) == before # "DRAFT"

\* mutant: PUBLIC can be set whatever the DID
PublicFromOpen(d) == FALSE

\* lines 423-442: PUBLIC is refused for a DID that is not a file and is open
PublicRefused(d) == catalog[d] # "file" /\ catalog[d] = "open"

\* lines 389-456
update_opendata_state(t, d, state) ==
    LET state_before == t.od[d]
    IN  IF state = "DRAFT" /\ DraftRefused(state_before)
        THEN Raised(t, "OpenDataInvalidStateUpdate")
        ELSE IF state = "PUBLIC" /\ PublicRefused(d)
        THEN Raised(t, "OpenDataInvalidStateUpdate")
        ELSE IF state = "SUSPENDED" /\ SuspendRefused(state_before)
        THEN Raised(t, "OpenDataInvalidStateUpdate")
        ELSE IF state_before = "none"
        THEN Raised(t, "ValueError")
        ELSE Done([t EXCEPT !.od[d] = state])

\* lines 355-357: json.loads of a string; the dict or list it holds
Loaded(meta) ==
    IF meta.type = "str_dict" THEN [meta EXCEPT !.type = "dict"]
    ELSE IF meta.type = "str_list" THEN [meta EXCEPT !.type = "list"]
    ELSE meta

\* mutant: a row is updated, none is inserted
UpdatedOnly(t, d, val) ==
    IF t.meta[d] = "none" THEN t ELSE [t EXCEPT !.meta[d] = val]

\* lines 364-380: the row is updated; if no row was updated one is inserted
Upserted(t, d, val) == [t EXCEPT !.meta[d] = val]

\* lines 347-386
update_opendata_meta(t, d, meta) ==
    IF meta.type = "str_bad" THEN Raised(t, "InputValidationError")
    ELSE IF Loaded(meta).type # "dict" THEN Raised(t, "InputValidationError")
    ELSE Done(Upserted(t, d, Loaded(meta).val))

\* lines 459-500: update the row, insert it if there is none
update_opendata_doi(t, d, doi) ==
    IF ~check_opendata_did_exists(d)
    THEN Raised(t, "OpenDataDataIdentifierNotFound")
    ELSE IF ~doi.str THEN Raised(t, "InputValidationError")
    ELSE IF ~MatchesDoi(doi.chars) THEN Raised(t, "InputValidationError")
    ELSE Done([t EXCEPT !.doi[d] = doi.chars])

\* lines 321-344
update_opendata_did(t, d, state, meta, doi) ==
    IF state = "none" /\ ~meta.given /\ ~doi.given
    THEN Raised(t, "InputValidationError")
    ELSE IF ~check_opendata_did_exists(d)
    THEN Raised(t, "OpenDataDataIdentifierNotFound")
    ELSE LET r1 == IF state # "none" THEN update_opendata_state(t, d, state)
                                      ELSE Done(t)
             r2 == IF r1.exc # "none" THEN r1
                   ELSE IF meta.given THEN update_opendata_meta(r1.t, d, meta)
                   ELSE r1
             r3 == IF r2.exc # "none" THEN r2
                   ELSE IF doi.given THEN update_opendata_doi(r2.t, d, doi)
                   ELSE r2
         IN  r3

\* mutant: a new row is PUBLIC
DefaultPublic == "PUBLIC"

\* line 238: the default state is DRAFT, set in the model
DefaultState == "DRAFT"

\* mutant: every IntegrityError is taken for a missing DID
InsertRaisesNotFound(violation) == "DataIdentifierNotFound"

\* lines 248-261: an IntegrityError whose text is that of a unique
\* constraint is raised again as OpenDataDataIdentifierAlreadyExists, any
\* other one as DataIdentifierNotFound
InsertRaises(violation) ==
    IF violation = "unique" THEN "OpenDataDataIdentifierAlreadyExists"
    ELSE "DataIdentifierNotFound"

\* the rows of the insert that violate a constraint, with the exception the
\* handler of lines 248-261 makes of each: a row for a (scope, name) that is
\* registered, or that comes twice in dids, violates the primary key; a row
\* for a (scope, name) that is no DID violates the foreign key
InsertErrors(t, dids) ==
    {InsertRaises("unique") : i \in
        {i \in 1..Len(dids) : \/ t.od[dids[i]] # "none"
                              \/ \E j \in 1..(i - 1) : dids[j] = dids[i]}}
    \cup {InsertRaises("foreign key") : i \in
        {i \in 1..Len(dids) : catalog[dids[i]] = "absent"}}

\* lines 227-261: one insert for all rows; which of several violations the
\* database reports is its choice
add_opendata_dids(t, dids) ==
    IF InsertErrors(t, dids) # {}
    THEN {Raised(t, e) : e \in InsertErrors(t, dids)}
    ELSE {Done([t EXCEPT !.od = [d \in Dids |->
                    IF d \in Range(dids) THEN DefaultState ELSE t.od[d]]])}

\* lines 212-224: the two exceptions are raised again with a text of their own
add_opendata_did(t, d) == add_opendata_dids(t, <<d>>)

\* lines 290-298 name the table dids_opendata only. The rows of the DOI and
\* metadata tables with the same (scope, name) stay, or go with the row if
\* the tables are defined to cascade; the definitions of the tables are not
\* in the source, so both are possible
Dependents(t, d) == {t, [t EXCEPT !.doi[d] = <<>>, !.meta[d] = "none"]}

\* mutant: the row stays
RemovedNothing(t, d) == {t}

\* lines 290-298: the row of dids_opendata is deleted
Removed(t, d) == {[x EXCEPT !.od[d] = "none"] : x \in Dependents(t, d)}

\* mutant: a record is deleted in whatever state it is
DeleteFromAny(state) == FALSE

\* line 287: state needs to be draft to be deleted
DeleteRefused(state) == state # "DRAFT"

\* lines 264-301
delete_opendata_did(t, d) ==
    IF t.od[d] = "none" THEN {Raised(t, "OpenDataDataIdentifierNotFound")}
    ELSE IF DeleteRefused(t.od[d]) THEN {Raised(t, "OpenDataInvalidState")}
    ELSE {Done(x) : x \in Removed(t, d)}

\* lines 126-146: the doi of the row, None (<<>>) if there is no row
get_opendata_doi(d) == od_doi[d]

\* lines 103-123: the meta of the row, {} if there is no row
get_opendata_meta(d) == IF od_meta[d] = "none" THEN "{}" ELSE od_meta[d]

\* lines 158-183: the selected columns of the row as a dict; (scope, name)
\* is d, and the two timestamps are those of the row
Row(d) ==
    [scope |-> d, name |-> d, state |-> od[d],
     created_at |-> "created", updated_at |-> "updated"]

\* lines 185-188: the keys doi and meta are added when asked for
With(row, key, val) ==
    [k \in DOMAIN row \cup {key} |-> IF k = key THEN val ELSE row[k]]

\* lines 149-209 with files=False: the row of dids_opendata, with the state
\* asked for if one is given
get_opendata_did(d, state, meta, doi) ==
    IF od[d] = "none" \/ (state # "none" /\ od[d] # state)
    THEN [exc |-> "OpenDataDataIdentifierNotFound", val |-> <<>>]
    ELSE LET r0 == Row(d)
             r1 == IF doi THEN With(r0, "doi", get_opendata_doi(d)) ELSE r0
             r2 == IF meta THEN With(r1, "meta", get_opendata_meta(d)) ELSE r1
         IN  [exc |-> "none", val |-> r2]

\* limit=None, offset=None
None == -1

\* the values of limit and offset the listing is asked with
Paging == {None} \cup (0..NDids)

\* mutant: the state filter is not applied
MatchingAll(state) == {d \in Dids : od[d] # "none"}

\* lines 86-87: the rows with the state asked for, all rows if none is given
Matching(state) ==
    {d \in Dids : od[d] # "none" /\ (state = "none" \/ od[d] = state)}

\* lines 77-78: order_by(updated_at); the model keeps no timestamps, so any
\* order of the rows is possible
Orderings(S) ==
    {s \in [1..Cardinality(S) -> S] :
        \A i, j \in 1..Cardinality(S) : s[i] = s[j] => i = j}

\* lines 80-84: limit and offset of the ordered rows
Page(s, n, limit, offset) ==
    LET from == IF offset = None THEN 1 ELSE offset + 1
        to == IF limit = None THEN n ELSE from + limit - 1
    IN  {s[i] : i \in {i \in 1..n : from <= i /\ i <= to}}

\* lines 65-100: the "dids" of the response, as the set of their
\* (scope, name); one element for each order the database can return
list_opendata_dids(limit, offset, state) ==
    {Page(s, Cardinality(Matching(state)), limit, offset) :
        s \in Orderings(Matching(state))}

\* opendata_public.py lines 25-37, gateway lines 28-39: the public listing
\* asks for state="PUBLIC" with the limit and offset of the request
OpenDataPublicView(limit, offset) == list_opendata_dids(limit, offset, "PUBLIC")

\* the tables after a call that ended with r, and the record of the call
Commit(op, d, r) ==
    LET t == Transactional(Tables, r)
    IN  /\ od' = t.od
        /\ od_doi' = t.doi
        /\ od_meta' = t.meta
        /\ last' = [op |-> op, did |-> d, exc |-> r.exc]
        /\ UNCHANGED catalog

\* rucio.core.did.add_did of the tests: a new DID, an open dataset or a file
AddDid(d, type) ==
    /\ catalog[d] = "absent"
    /\ catalog' = [catalog EXCEPT ![d] = type]
    /\ UNCHANGED <<od, od_doi, od_meta, last>>
    /\ UNCHANGED <<cycle_rest, deleted, contention, fleet_vars>>

\* rucio.core.did.set_status(open=False) of the tests
CloseDid(d) ==
    /\ catalog[d] = "open"
    /\ catalog' = [catalog EXCEPT ![d] = "closed"]
    /\ UNCHANGED <<od, od_doi, od_meta, last>>
    /\ UNCHANGED <<cycle_rest, deleted, contention, fleet_vars>>

AddOpendataDid(d) ==
    /\ \E r \in add_opendata_did(Tables, d) : Commit("add_opendata_did", d, r)
    /\ UNCHANGED <<cycle_rest, deleted, contention, fleet_vars>>

AddOpendataDids(dids) ==
    /\ \E r \in add_opendata_dids(Tables, dids) : Commit("add_opendata_dids", 0, r)
    /\ UNCHANGED <<cycle_rest, deleted, contention, fleet_vars>>

DeleteOpendataDid(d) ==
    /\ \E r \in delete_opendata_did(Tables, d) : Commit("delete_opendata_did", d, r)
    /\ UNCHANGED <<cycle_rest, deleted, contention, fleet_vars>>

UpdateOpendataDid(d, state, meta, doi) ==
    /\ Commit("update_opendata_did", d, update_opendata_did(Tables, d, state, meta, doi))
    /\ UNCHANGED <<cycle_rest, deleted, contention, fleet_vars>>

UpdateOpendataState(d, state) ==
    /\ Commit("update_opendata_state", d, update_opendata_state(Tables, d, state))
    /\ UNCHANGED <<cycle_rest, deleted, contention, fleet_vars>>

UpdateOpendataDoi(d, doi) ==
    /\ Commit("update_opendata_doi", d, update_opendata_doi(Tables, d, doi))
    /\ UNCHANGED <<cycle_rest, deleted, contention, fleet_vars>>

\* lists of one or two (scope, name) for the bulk insert
DidLists == SeqsUpTo(Dids, 2) \ {<<>>}

InitOpendata ==
    /\ InitCycle(DefaultChunkSize)
    /\ NoFleet
    /\ NoOpendata

NextOpendata ==
    \/ \E d \in Dids : \E type \in {"open", "file"} : AddDid(d, type)
    \/ \E d \in Dids : CloseDid(d)
    \/ \E d \in Dids : AddOpendataDid(d)
    \/ \E dids \in DidLists : AddOpendataDids(dids)
    \/ \E d \in Dids : DeleteOpendataDid(d)
    \/ \E d \in Dids : \E state \in StateArgs : \E meta \in DidMetaArgs :
          \E doi \in DidDoiArgs : UpdateOpendataDid(d, state, meta, doi)
    \/ \E d \in Dids : \E state \in States : UpdateOpendataState(d, state)
    \/ \E d \in Dids : \E doi \in SomeDoiArgs : UpdateOpendataDoi(d, doi)

SpecOpendata == InitOpendata /\ [][NextOpendata]_vars

\* the calls that read and write the DOI, with every doi of DoiArgs, on
\* records that are added, deleted and moved between the states
NextDoi ==
    \/ \E d \in Dids : \E type \in {"open", "file"} : AddDid(d, type)
    \/ \E d \in Dids : CloseDid(d)
    \/ \E d \in Dids : AddOpendataDid(d)
    \/ \E d \in Dids : DeleteOpendataDid(d)
    \/ \E d \in Dids : \E state \in States : UpdateOpendataState(d, state)
    \/ \E d \in Dids : \E doi \in DoiArgs :
          UpdateOpendataDid(d, "none", NoMetaArg, doi)
    \/ \E d \in Dids : \E doi \in DoiArgs \ {NoDoiArg} : UpdateOpendataDoi(d, doi)

SpecDoi == InitOpendata /\ [][NextDoi]_vars

\* the calls that read and write the metadata, with every meta of MetaArgs,
\* on records that are added, deleted and moved between the states
NextMeta ==
    \/ \E d \in Dids : \E type \in {"open", "file"} : AddDid(d, type)
    \/ \E d \in Dids : CloseDid(d)
    \/ \E d \in Dids : AddOpendataDid(d)
    \/ \E d \in Dids : DeleteOpendataDid(d)
    \/ \E d \in Dids : \E state \in States : UpdateOpendataState(d, state)
    \/ \E d \in Dids : \E meta \in MetaArgs : \E doi \in DidDoiArgs :
          UpdateOpendataDid(d, "none", meta, doi)

SpecMeta == InitOpendata /\ [][NextMeta]_vars

\* ------------------------------------------------- REST views
\* The two views with POST and DELETE on /<scope>/<name>:
\* OpenDataPrivateDIDsView (opendata_private.py) and OpenDataDIDs
\* (opendata.py). Each calls the gateway, which calls the core function in
\* one transaction, and turns the outcome into an HTTP status.
Views == {"OpenDataPrivateDIDsView", "OpenDataDIDs"}

\* an exception no except clause of the view takes goes to
\* ErrorHandlingMethodView, which is not in the source: the status it
\* answers with is some error status
Uncaught == {400, 404, 409, 500}

\* opendata_private.py lines 58-68 and opendata.py lines 86-93: the status
\* of POST when the gateway call ended with exc
post(view, exc) ==
    IF exc = "none" THEN {201}
    ELSE IF exc = "ValueError" THEN {400}
    ELSE IF view = "OpenDataPrivateDIDsView"
            /\ exc \in {"OpenDataDataIdentifierNotFound",
                        "OpenDataDataIdentifierAlreadyExists"} THEN {404}
    ELSE Uncaught

\* opendata.py line 110: except (ScopeNotFound, DataIdentifierNotFound); the
\* exception classes are not in the source, so whether this clause takes an
\* OpenDataDataIdentifierNotFound is open
TakenAsNotFound(exc) ==
    IF exc = "DataIdentifierNotFound" THEN {TRUE}
    ELSE IF exc = "OpenDataDataIdentifierNotFound" THEN {TRUE, FALSE}
    ELSE {FALSE}

\* opendata_private.py lines 84-93 and opendata.py lines 104-113: the status
\* of DELETE when the gateway call ended with exc
delete(view, exc) ==
    IF exc = "none" THEN {200}
    ELSE IF exc = "ValueError" THEN {400}
    ELSE IF view = "OpenDataDIDs"
    THEN UNION {IF taken THEN {404} ELSE Uncaught : taken \in TakenAsNotFound(exc)}
    ELSE Uncaught

\* opendataclient.py lines 84-99: remove_opendata_did returns True on 204
\* and raises the exception of the response on any other status
remove_opendata_did(status) == IF status = 204 THEN "True" ELSE "raises"

\* POST /<scope>/<name>: gateway add_opendata_did (lines 65-74), core
\* add_opendata_did
Post(view, d) ==
    /\ \E r \in add_opendata_did(Tables, d) : Commit(view \o ".post", d, r)
    /\ UNCHANGED <<cycle_rest, deleted, contention, fleet_vars>>

\* DELETE /<scope>/<name>: gateway delete_opendata_did (lines 77-86), core
\* delete_opendata_did
Delete(view, d) ==
    /\ \E r \in delete_opendata_did(Tables, d) : Commit(view \o ".delete", d, r)
    /\ UNCHANGED <<cycle_rest, deleted, contention, fleet_vars>>

NextRest ==
    \/ \E d \in Dids : \E type \in {"open", "file"} : AddDid(d, type)
    \/ \E d \in Dids : CloseDid(d)
    \/ \E view \in Views : \E d \in Dids : Post(view, d)
    \/ \E view \in Views : \E d \in Dids : Delete(view, d)
    \/ \E d \in Dids : \E state \in States : UpdateOpendataState(d, state)

SpecRest == InitOpendata /\ [][NextRest]_vars

\* ================================================================== claims
\* What the current cycle has passed to delete_dids, in order
Submitted == [i \in 1..Len(calls) |-> calls[i].chunk]
\* The chunks the loop of line 90 walks in the current cycle
CycleChunks == chunks(filtered, chunk_size)
\* run_once has returned and no exception reached the outer handler
CycleDone == cycles > 0 /\ pc = "idle" /\ outcome \in {"returned", "nowork"}
\* how often key k occurs in list l
Count(l, k) == Cardinality({i \in 1..Len(l) : l[i] = k})
\* the sizes of the chunks delete_dids returned from, summed
OkSizes == SeqSum([i \in 1..Len(calls) |->
                      IF calls[i].kind = "ok" THEN Len(calls[i].chunk) ELSE 0])
LockCalls == {i \in 1..Len(calls) : calls[i].kind = "lock"}

\* C1 (as claimed): no chunk passed to delete_dids holds a key that is in
\* paused_dids with a retryNotBefore the clock has not passed - in the cycle
\* that wrote the entry as in later ones, duplicates in the list included.
C1_QuarantineExclusion ==
    \A i \in 1..Len(calls) : calls[i].live = {}

\* list l holds no key twice
NoDuplicates(l) == \A i, j \in 1..Len(l) : l[i] = l[j] => i = j

\* The exclusion of C1 for the cycles whose candidate list holds every key
\* once: there it holds, in the cycle of the quarantine and in later ones.
ExclusionWithoutDuplicates ==
    NoDuplicates(returned) => \A i \in 1..Len(calls) : calls[i].live = {}

\* a key is passed to delete_dids again once the clock has passed its entry
ExclusionEnds ==
    /\ cycles = 2 /\ calls # <<>>
    /\ \E k \in Range(calls[1].chunk) : k \in DOMAIN ledger_in

\* C2 (as claimed): a chunk whose failure is Unclassified is the last chunk
\* of its cycle passed to delete_dids, and what the earlier chunks added to
\* the deleted counter stays.
C2_UnknownFailureIsolation ==
    /\ \A i \in 1..Len(calls) : calls[i].uncl => i = Len(calls)
    /\ deleted = deleted0 + OkSizes

\* C3: no failure of list_expired_dids or delete_dids leaves run_once: the
\* call returns, the instance is between two cycles, and the next call
\* receives the ledger as the failed one left it.
C3_LoopSurvives ==
    /\ [](~escaped /\ (outcome = "failed" => pc = "idle" /\ todo = <<>>))
    /\ [][(outcome = "failed" /\ cycles' = cycles + 1) => ledger_in' = paused_dids]_vars

C3_Witness ==
    /\ outcome = "failed" /\ pc = "idle" /\ cycles < MaxCycles
    /\ calls # <<>> /\ paused_dids # <<>>

\* C4: a lock conflict on a chunk does not end the loop: the chunks passed so
\* far are the first chunks of the cycle in order, after a chunk that did not
\* abort the loop stands at the next one, every key of a chunk that failed
\* with a lock conflict is in paused_dids, and the deleted counter has grown
\* by the sizes of the chunks that succeeded and by nothing else.
C4_ContentionIsolation ==
    /\ \A i \in LockCalls : Range(calls[i].chunk) \subseteq DOMAIN paused_dids
    /\ deleted = deleted0 + OkSizes
    /\ (LockCalls # {} /\ outcome # "failed") =>
          /\ Len(calls) <= Len(CycleChunks)
          /\ Submitted = SubSeq(CycleChunks, 1, Len(calls))
          /\ todo = SubSeq(CycleChunks, Len(calls) + 1, Len(CycleChunks))
          /\ (pc = "idle" <=> Len(calls) = Len(CycleChunks))

C4_Witness ==
    /\ CycleDone /\ Len(calls) = 2
    /\ calls[1].kind = "lock" /\ calls[2].kind = "ok"
    /\ deleted = deleted0 + Len(calls[2].chunk)
    /\ Range(calls[1].chunk) \subseteq DOMAIN paused_dids

\* C5: when a cycle has returned without an abort, each key that the ledger
\* did not hold after the refresh was passed to delete_dids as often as
\* list_expired_dids returned it, each occurrence in one chunk, and a key the
\* ledger held, or one that was not returned, was passed in no chunk.
C5_Coverage ==
    CycleDone =>
        \A k \in Range(returned) \cup Range(Flatten(Submitted)) :
            Count(Flatten(Submitted), k) =
                IF k \in DOMAIN paused0 THEN 0 ELSE Count(returned, k)

C5_Witness ==
    /\ CycleDone /\ Len(calls) = 2
    /\ \E k \in Range(returned) : k \in DOMAIN paused0
    /\ \E k \in Range(returned) : k \notin DOMAIN paused0

\* C6: when a cycle with N >= 1 unquarantined candidates and chunk size k
\* has returned without an abort, it has passed ceil(N/k) chunks, every one
\* but the last of size k and the last of size 1..k, and the chunks in order
\* make up the filtered list.
C6_Chunking ==
    (CycleDone /\ Len(filtered) >= 1) =>
        LET N == Len(filtered)
            k == chunk_size
        IN  /\ Len(calls) = (N + k - 1) \div k
            /\ \A i \in 1..Len(calls) :
                 /\ Len(calls[i].chunk) >= 1
                 /\ Len(calls[i].chunk) <= k
                 /\ i < Len(calls) => Len(calls[i].chunk) = k
            /\ Flatten(Submitted) = filtered

C6_Witness ==
    /\ CycleDone /\ Len(filtered) = 3 /\ chunk_size = 2
    /\ Len(calls) = 2 /\ Len(calls[2].chunk) = 1

\* C7: a cycle in which list_expired_dids returned nothing, or only keys the
\* ledger holds after the refresh, passes nothing to delete_dids, leaves both
\* counters and the ledger as they were and returns.
C7_NoWork ==
    (cycles > 0 /\ outcome # "failed" /\ Range(returned) \subseteq DOMAIN paused0) =>
        /\ outcome = "nowork" /\ pc = "idle"
        /\ calls = <<>>
        /\ deleted = deleted0 /\ contention = contention0
        /\ paused_dids = paused0
        /\ ~escaped

C7_Witness ==
    /\ outcome = "nowork" /\ returned # <<>> /\ calls = <<>> /\ pc = "idle"

\* The scenario's cycle has run to its end as the scenario says
ScenarioDone ==
    /\ cycles = 1 /\ pc = "idle" /\ outcome = "returned"
    /\ returned = ScenarioDids /\ chunk_size = DefaultChunkSize
    /\ Len(calls) = 3
    /\ calls[1].kind = "ok" /\ calls[2].kind = "lock" /\ calls[3].kind = "ok"
\* what the scenario leaves apart from the deleted counter
ScenarioRest ==
    /\ <<Len(calls[1].chunk), Len(calls[2].chunk), Len(calls[3].chunk)>> = <<10, 10, 5>>
    /\ Flatten(Submitted) = ScenarioDids
    /\ contention = contention0 + 1
    /\ DOMAIN paused_dids \ DOMAIN paused0 = Range(calls[2].chunk)
    /\ Cardinality(DOMAIN paused_dids \ DOMAIN paused0) = 10

\* C8 (amended): in the scenario the three chunks have sizes 10, 10, 5, the
\* contention counter grows by 1, the 10 keys of chunk 2 are the new ledger
\* entries, and the deleted counter grows by 15: 10 of chunk 1, 5 of chunk 3.
C8_Scenario ==
    ScenarioDone => (ScenarioRest /\ deleted = deleted0 + 15)

C8_Witness == ScenarioDone /\ deleted = 15 /\ contention = 1

\* C8 (as claimed): the same with the deleted counter grown by 10.
C8_ScenarioAsClaimed ==
    ScenarioDone => (ScenarioRest /\ deleted = deleted0 + 10)

\* the entries a lock conflict of the current cycle wrote, with the clock
\* value of the write: key k of call i, if no later lock call holds k
Written ==
    {<<k, calls[i].at>> : <<k, i>> \in
        {<<k, i>> \in (DOMAIN paused_dids) \X LockCalls :
            /\ k \in Range(calls[i].chunk)
            /\ \A j \in LockCalls : j > i => k \notin Range(calls[j].chunk)}}

\* C9 (amended): a retryNotBefore written by a lock conflict at time now
\* lies in the closed interval from now + 600 to now + 2400 seconds.
C9_BackoffClosed ==
    \A w \in Written :
        /\ paused_dids[w[1]] >= w[2] + MinBackoff
        /\ paused_dids[w[1]] <= w[2] + MaxBackoff

C9_Witness ==
    /\ \E w \in Written : paused_dids[w[1]] = w[2] + MinBackoff
    /\ \E w \in Written : paused_dids[w[1]] = w[2] + MaxBackoff

\* C9 (as claimed): it lies strictly between now + 600 and now + 2400.
C9_BackoffOpen ==
    \A w \in Written :
        /\ paused_dids[w[1]] > w[2] + MinBackoff
        /\ paused_dids[w[1]] < w[2] + MaxBackoff

\* C10 (amended): right after the refresh at time now the ledger holds the
\* entries it was given whose retryNotBefore >= now, and no other: an entry
\* with retryNotBefore < now is removed, one with retryNotBefore = now stays.
C10_PurgeStrict ==
    cycles > 0 =>
        /\ DOMAIN paused0 = {k \in DOMAIN ledger_in : ledger_in[k] >= refreshed_at}
        /\ \A k \in DOMAIN paused0 : paused0[k] = ledger_in[k]

C10_Witness ==
    /\ cycles = 2 /\ calls = <<>>
    /\ \E k \in DOMAIN ledger_in : ledger_in[k] = refreshed_at /\ k \in DOMAIN paused0

\* the refresh also meets an entry the clock has passed, and removes it
C10_RemovalReached ==
    /\ cycles = 2
    /\ \E k \in DOMAIN ledger_in : ledger_in[k] < refreshed_at /\ k \notin DOMAIN paused0

\* C10 (as claimed): right after the refresh at time now the ledger holds
\* no entry with retryNotBefore <= now.
C10_PurgeAtBoundary ==
    cycles > 0 => \A k \in DOMAIN paused0 : paused0[k] > refreshed_at

\* What delete_dids did in the calls of the current cycle, read from the
\* exception it raised and not from the handler that took it
RnfCalls == {i \in 1..Len(calls) : calls[i].family = "RuleNotFound"}
ConflictCalls == {i \in 1..Len(calls) : calls[i].family = "db" /\ calls[i].sig}
ReturnedSizes == SeqSum([i \in 1..Len(calls) |->
                      IF calls[i].family = "none" THEN Len(calls[i].chunk) ELSE 0])

\* C11: when delete_dids raises RuleNotFound for a chunk, the handler of line
\* 97 takes it: a key of the chunk is in paused_dids only if a lock conflict
\* of another chunk of the cycle put it there, the deleted counter has grown
\* by the sizes of the chunks delete_dids returned from and the contention
\* counter by the number of lock conflicts, and right after the chunk the
\* loop stands at the next chunk of the cycle, or has returned if there is
\* none.
C11_DependencyGone ==
    /\ \A i \in RnfCalls :
          /\ calls[i].kind = "gone"
          /\ \A k \in Range(calls[i].chunk) :
                k \in DOMAIN paused_dids =>
                   \/ k \in DOMAIN paused0
                   \/ \E j \in ConflictCalls : k \in Range(calls[j].chunk)
          /\ i = Len(calls) =>
                /\ outcome # "failed"
                /\ i <= Len(CycleChunks)
                /\ todo = SubSeq(CycleChunks, i + 1, Len(CycleChunks))
                /\ (pc = "idle" <=> i = Len(CycleChunks))
    /\ RnfCalls # {} =>
          /\ deleted = deleted0 + ReturnedSizes
          /\ contention = contention0 + Cardinality(ConflictCalls)

\* a cycle of two chunks: RuleNotFound on the first, the second deleted
C11_Witness ==
    /\ CycleDone /\ Len(calls) = 2
    /\ calls[1].family = "RuleNotFound" /\ calls[2].family = "none"
    /\ paused_dids = paused0
    /\ deleted = deleted0 + Len(calls[2].chunk) /\ contention = contention0

\* a cycle whose only failures are RuleNotFound leaves ledger and contention
\* counter as the refresh left them
OnlyGoneChangesNothing ==
    (\A i \in 1..Len(calls) : calls[i].family \in {"none", "RuleNotFound"}) =>
        (cycles > 0 => paused_dids = paused0 /\ contention = contention0)

\* C12 (amended): each call of delete_dids ends in one of five ways and the
\* exception decides which; it is handled as a lock conflict exactly when the
\* exception is a DatabaseException, DatabaseError or UnsupportedOperation
\* whose text one of the four expressions matches; then every key of the
\* chunk is in paused_dids and the contention counter has grown by one per
\* such chunk. RuleNotFound is handled as gone whatever its text.
C12_ClassifyByClassAndText ==
    /\ \A i \in 1..Len(calls) :
          /\ calls[i].kind \in {"ok", "gone", "lock", "dberr", "abort"}
          /\ calls[i].kind = "ok" <=> calls[i].family = "none"
          /\ calls[i].kind = "gone" <=> calls[i].family = "RuleNotFound"
          /\ calls[i].kind = "lock" <=> (calls[i].family = "db" /\ calls[i].sig)
          /\ calls[i].kind = "lock" =>
                Range(calls[i].chunk) \subseteq DOMAIN paused_dids
    /\ contention = contention0 + Cardinality(ConflictCalls)

\* an exception of another class with a lock text ends the cycle, after a
\* lock conflict on the chunk before it
C12_Witness ==
    /\ Len(calls) = 2
    /\ calls[1].kind = "lock" /\ calls[1].family = "db" /\ calls[1].sig
    /\ calls[2].kind = "abort" /\ calls[2].family = "other" /\ calls[2].sig
    /\ contention = contention0 + 1
    /\ Range(calls[1].chunk) \subseteq DOMAIN paused_dids

\* C12 (as claimed): a failure is handled as a lock conflict exactly when
\* its text matches one of the four expressions.
C12_ClassifyByText ==
    \A i \in 1..Len(calls) :
        calls[i].family # "none" => (calls[i].kind = "lock" <=> calls[i].sig)

\* the undertaker() calls that have created their dict
Started == {i \in Workers : inst[i].led # 0}

\* C13: two loop instances of one run() never hold the same dict; an entry
\* of a dict was written by the instance that holds it and by no other; and
\* no filter has dropped a candidate because of an entry another instance
\* wrote.
C13_LedgerIsolation ==
    /\ \A i, j \in Started : i # j => inst[i].led # inst[j].led
    /\ \A id \in Workers : \A k \in Keys :
          /\ k \in DOMAIN heap[id] => by[id][k] # 0
          /\ by[id][k] # 0 => inst[by[id][k]].led = id
    /\ ~foreign_drop

\* an instance in its second cycle is about to pass a key to delete_dids
\* that the dict of the other instance holds
C13_Witness ==
    /\ kept_foreign
    /\ \E i \in Workers :
          /\ inst[i].st = "chunks" /\ inst[i].cycles = 2
          /\ Range(Flatten(inst[i].todo)) \cap ForeignKeys(i) # {}
          /\ heap[inst[i].led] # <<>>

\* C14 (as claimed): when run(once=True, total_workers=N) has returned and
\* nobody called stop(), N loop instances have run one cycle each and ended.
C14_OnceRunsAllWorkers ==
    (main_pc = "returned" /\ args.once /\ ~graceful_stop) =>
        Cardinality({i \in Workers : inst[i].st = "dead" /\ inst[i].cycles = 1})
            = args.total_workers

\* what does hold in once mode: one instance, one cycle
OnceRunsOneInstance ==
    (main_pc = "returned" /\ args.once /\ ~graceful_stop) =>
        /\ inst[1].st = "dead" /\ inst[1].cycles = 1
        /\ \A i \in Workers \ {1} : inst[i].st = "none"

\* C15 (as claimed): no chunk passed to delete_dids is longer than the
\* chunk_size run() was called with, in once mode as in threaded mode.
C15_ChunkSizeHonoured == batch_max <= args.chunk_size

\* what does hold: the threads of the threaded mode keep to it
ChunkSizeHonouredInThreads == ~args.once => batch_max <= args.chunk_size

\* C16 (as claimed): in threaded mode run() has returned only if every
\* thread it started has ended.
C16_ReturnsAfterAllThreads ==
    (main_pc = "returned" /\ ~args.once) =>
        \A i \in Workers : inst[i].st \in {"none", "dead"}

\* run() is over and so is every undertaker() call it made
AllEnded ==
    /\ main_pc \in {"returned", "raised"}
    /\ \A i \in Workers : inst[i].st \in {"none", "dead"}

\* C17: once the Event is set no instance begins a cycle; each one ends the
\* cycle it is in and leaves run_daemon, and run() returns.
C17_CooperativeShutdown ==
    /\ graceful_stop ~> AllEnded
    /\ [][graceful_stop => \A i \in Workers : inst'[i].cycles = inst[i].cycles]_vars

\* stop() came while two threads were in their cycles
C17_Witness ==
    /\ graceful_stop /\ ~args.once /\ main_pc = "joining"
    /\ \A i \in Workers : inst[i].st = "chunks" /\ Len(inst[i].todo) = 2

\* C18: when list_expired_dids raised in the current cycle, the cycle made
\* no call of delete_dids, both counters and the ledger are as the refresh
\* left them, run_once has returned to the loop of the instance, and the
\* next cycle can start: it receives this ledger and lists again.
C18_ListFailure ==
    /\ [](list_raised =>
            /\ calls = <<>> /\ todo = <<>>
            /\ deleted = deleted0 /\ contention = contention0
            /\ paused_dids = paused0 /\ paused0 = Refresh(ledger_in, refreshed_at)
            /\ pc = "idle" /\ outcome = "failed" /\ ~escaped
            /\ cycles < MaxCycles => ENABLED StartCycle(Returns(<<1>>)))
    /\ [][(list_raised /\ cycles' = cycles + 1) =>
              /\ ledger_in' = paused_dids
              /\ (~list_raised' /\ filtered' # <<>>) => outcome' = "running"]_vars

\* list_expired_dids raised in the second cycle, with an entry in the ledger
C18_Witness ==
    /\ list_raised /\ cycles = 2 /\ paused_dids # <<>>
    /\ deleted0 > 0 /\ contention0 > 0

\* C19: the undertaker.delete_dids counter equals the sizes, summed, of all
\* chunks delete_dids returned from, in this cycle and the ones before; a
\* step never lowers it, and a chunk on which delete_dids raised leaves it
\* as it was.
C19_DeletedAccounting ==
    /\ [](deleted = ok_total)
    /\ [][deleted' >= deleted]_vars
    /\ [][(Len(calls') = Len(calls) + 1 /\ calls'[Len(calls')].family # "none")
              => deleted' = deleted]_vars

\* second cycle: a chunk of two deleted and then a failed one, on top of
\* what the first cycle deleted
C19_Witness ==
    /\ cycles = 2 /\ deleted0 > 0 /\ Len(calls) = 2
    /\ calls[1].family = "none" /\ calls[2].family # "none"
    /\ Len(calls[1].chunk) = 2 /\ deleted = deleted0 + 2

\* C20: the LocksDetected counter equals the number of chunks, in this cycle
\* and the ones before, on which delete_dids raised a lock conflict; such a
\* chunk adds one whatever its size, and every other outcome adds nothing.
C20_ContentionAccounting ==
    /\ [](contention = lock_batches)
    /\ [][Len(calls') = Len(calls) + 1 =>
              LET c == calls'[Len(calls')]
              IN  contention' = IF c.family = "db" /\ c.sig THEN contention + 1
                                                          ELSE contention]_vars
    /\ [][Len(calls') # Len(calls) + 1 => contention' = contention]_vars

\* second cycle: a lock conflict on a chunk of two keys, after one in the
\* first cycle
C20_Witness ==
    /\ cycles = 2 /\ contention0 = 1 /\ calls # <<>>
    /\ calls[Len(calls)].kind = "lock" /\ Len(calls[Len(calls)].chunk) = 2
    /\ contention = 2

\* instance j is about to pass a chunk holding a did that another instance
\* has removed
Overlapped(j) ==
    /\ inst[j].st = "chunks"
    /\ \E k \in Range(Head(inst[j].todo)) : removed_by[k] \notin {0, j}

\* C22: with two threads on overlapping lists, when an instance passes a
\* chunk holding a did the other one has removed and delete_dids raises
\* RuleNotFound, the instance goes on with its next chunk, or back to
\* run_daemon after the last one; the chunk adds nothing to either counter
\* and writes no entry; and no instance ever ends.
C22_OverlapTolerance ==
    /\ [](\A i \in Workers : inst[i].st # "dead")
    /\ [](main_pc # "returned")
    /\ [][\A j \in Workers :
            (Overlapped(j) /\ inst'[j] # inst[j]) =>
                /\ inst'[j].todo = Tail(inst[j].todo)
                /\ inst'[j].st = IF Tail(inst[j].todo) = <<>> THEN "loop"
                                                              ELSE "chunks"
                /\ inst'[j].cycles = inst[j].cycles
                /\ deleted' = deleted /\ contention' = contention
                /\ heap' = heap /\ removed_by' = removed_by]_vars

\* both threads are in a cycle; one has deleted a did, the other is about to
\* pass a chunk holding it and has one more chunk after that
C22_Witness ==
    \E i, j \in Workers :
        /\ i # j /\ inst[i].st = "chunks" /\ Overlapped(j)
        /\ Len(inst[j].todo) = 2 /\ deleted > 0
        /\ \E k \in Range(Head(inst[j].todo)) : removed_by[k] = i

\* the chunk after the one that raised RuleNotFound is deleted: the second
\* instance has removed a did after the first one removed another
C22_BothDelete ==
    /\ \E k1, k2 \in Keys : removed_by[k1] = 1 /\ removed_by[k2] = 2
    /\ \A i \in Workers : inst[i].cycles = 1 /\ inst[i].st = "loop"
    /\ deleted = 2 /\ args.chunk_size = 1

\* key k has an entry and the clock has passed it
Due(k) == k \in DOMAIN paused_dids /\ now > paused_dids[k]

\* key k was in a chunk passed to delete_dids in the current cycle
Passed(k) == \E i \in 1..Len(calls) : k \in Range(calls[i].chunk)

\* the cycle has ended; its refresh removed the entry of k, and if the list
\* held k then k was passed to delete_dids, unless an exception ended the
\* cycle first
Retried(k) ==
    /\ pc = "idle"
    /\ k \notin DOMAIN paused0
    /\ Count(returned, k) > 0 => (Passed(k) \/ outcome = "failed")

\* C21: when the instance stands between two cycles, a key has an entry the
\* clock has passed and a cycle is left to run, then the next cycle runs to
\* its end, its refresh removes the entry, and if list_expired_dids returns
\* the key it is passed to delete_dids in that cycle (unless an exception
\* ends the cycle before its chunk). An entry is written in a cycle, so at
\* least one cycle has run.
C21_NoPermanentExclusion ==
    \A k \in Keys : \A c \in 1..(MaxCycles - 1) :
        (Due(k) /\ pc = "idle" /\ cycles = c) ~> (cycles = c + 1 /\ Retried(k))

\* second cycle: the key quarantined in the first one is passed again
C21_Witness ==
    /\ cycles = 2 /\ pc = "idle" /\ outcome = "returned"
    /\ \E k \in DOMAIN ledger_in :
          /\ refreshed_at > ledger_in[k]
          /\ k \notin DOMAIN paused0
          /\ Passed(k)


\* ------------------------------------------------- rucio.core.opendata
\* a call of update_opendata_did or update_opendata_state that asks for
\* state on d
SetsState(d, state) ==
    /\ last'.did = d
    /\ \/ UpdateOpendataState(d, state)
       \/ \E meta \in DidMetaArgs : \E doi \in DidDoiArgs :
             UpdateOpendataDid(d, state, meta, doi)

\* the latest call was an update of d and raised OpenDataInvalidStateUpdate
UpdateRefused(d) ==
    /\ last.op \in {"update_opendata_did", "update_opendata_state"}
    /\ last.did = d
    /\ last.exc = "OpenDataInvalidStateUpdate"

\* C23: a record that is PUBLIC or SUSPENDED is not DRAFT after any step, and
\* every update of it that asks for DRAFT raises OpenDataInvalidStateUpdate
\* and leaves the three tables as they were.
C23_NeverBackToDraft ==
    [][\A d \in Dids :
          od[d] \in {"PUBLIC", "SUSPENDED"} =>
              /\ od'[d] # "DRAFT"
              /\ SetsState(d, "DRAFT") =>
                    /\ UpdateRefused(d)'
                    /\ od' = od /\ od_doi' = od_doi /\ od_meta' = od_meta]_vars

\* a SUSPENDED record whose latest update was refused: SUSPENDED and PUBLIC
\* are accepted on it, so the update asked for DRAFT
C23_Witness == \E d \in Dids : od[d] = "SUSPENDED" /\ UpdateRefused(d)


\* C24: a step makes a record SUSPENDED only from PUBLIC (or leaves it
\* SUSPENDED); an update that asks for SUSPENDED on a DRAFT record raises
\* OpenDataInvalidStateUpdate and leaves it DRAFT; an update that asks for
\* SUSPENDED on a PUBLIC record, or for PUBLIC on a SUSPENDED one, and gives
\* no rejected meta or doi with it, returns and sets that state.
C24_SuspendedOnlyAfterPublic ==
    [][\A d \in Dids :
          /\ od'[d] = "SUSPENDED" => od[d] \in {"PUBLIC", "SUSPENDED"}
          /\ (od[d] = "DRAFT" /\ SetsState(d, "SUSPENDED")) =>
                UpdateRefused(d)' /\ od' = od
          /\ (od[d] = "PUBLIC" /\ (UpdateOpendataState(d, "SUSPENDED")
                  \/ UpdateOpendataDid(d, "SUSPENDED", NoMetaArg, NoDoiArg))) =>
                last'.exc = "none" /\ od'[d] = "SUSPENDED"
          /\ (od[d] = "SUSPENDED" /\ (UpdateOpendataState(d, "PUBLIC")
                  \/ UpdateOpendataDid(d, "PUBLIC", NoMetaArg, NoDoiArg))) =>
                last'.exc = "none" /\ od'[d] = "PUBLIC"]_vars

\* a record that update_opendata_state has just written and that is
\* SUSPENDED: the call asked for SUSPENDED and returned
C24_Witness ==
    \E d \in Dids :
        /\ od[d] = "SUSPENDED"
        /\ last = [op |-> "update_opendata_state", did |-> d, exc |-> "none"]

\* C25: an update that asks for PUBLIC on a record whose DID is an open
\* dataset raises OpenDataInvalidStateUpdate and leaves the tables as they
\* were; on a record whose DID is closed, whatever the state of the record,
\* an update that asks for PUBLIC and gives no rejected meta or doi with it
\* returns and the record is PUBLIC.
C25_PublicNeedsClosed ==
    [][\A d \in Dids :
          /\ (od[d] # "none" /\ catalog[d] = "open" /\ SetsState(d, "PUBLIC")) =>
                /\ UpdateRefused(d)'
                /\ od' = od /\ od_doi' = od_doi /\ od_meta' = od_meta
          /\ (od[d] # "none" /\ catalog[d] = "closed"
                  /\ (UpdateOpendataState(d, "PUBLIC")
                        \/ UpdateOpendataDid(d, "PUBLIC", NoMetaArg, NoDoiArg))) =>
                last'.exc = "none" /\ od'[d] = "PUBLIC"
          /\ (od'[d] = "PUBLIC" /\ od[d] # "PUBLIC") => catalog[d] # "open"]_vars

\* a record of a closed dataset that update_opendata_state has just written
\* and that is PUBLIC
C25_Witness ==
    \E d \in Dids :
        /\ catalog[d] = "closed"
        /\ od[d] = "PUBLIC"
        /\ last = [op |-> "update_opendata_state", did |-> d, exc |-> "none"]


\* a call of add_opendata_did or add_opendata_dids for the (scope, name) of
\* dids
Adds(dids) ==
    /\ last'.op \in {"add_opendata_did", "add_opendata_dids"}
    /\ \/ AddOpendataDids(dids)
       \/ Len(dids) = 1 /\ AddOpendataDid(dids[1])

\* C26: an add of DIDs that are in the catalog, are not registered and are
\* named once returns, and when an add returns, each (scope, name) it names
\* has a new record in state DRAFT, which get_opendata_did returns with the
\* keys scope, name, state, created_at and updated_at, and no other record
\* is created or changed.
C26_AddStartsInDraft ==
    [][\A dids \in DidLists :
          Adds(dids) =>
              /\ (\A i \in 1..Len(dids) :
                      /\ catalog[dids[i]] # "absent"
                      /\ od[dids[i]] = "none"
                      /\ \A j \in 1..Len(dids) : dids[j] = dids[i] => j = i)
                  => last'.exc = "none"
              /\ last'.exc = "none" =>
                    /\ \A d \in Range(dids) :
                          /\ catalog[d] # "absent" /\ od[d] = "none"
                          /\ od'[d] = "DRAFT"
                          /\ get_opendata_did(d, "none", FALSE, TRUE)'.exc = "none"
                          /\ {"scope", "name", "state", "created_at", "updated_at"}
                                \subseteq DOMAIN get_opendata_did(d, "none", FALSE, TRUE)'.val
                          /\ get_opendata_did(d, "none", FALSE, TRUE)'.val.scope = d
                          /\ get_opendata_did(d, "none", FALSE, TRUE)'.val.name = d
                          /\ get_opendata_did(d, "none", FALSE, TRUE)'.val.state = "DRAFT"
                    /\ \A d \in Dids \ Range(dids) : od'[d] = od[d]]_vars

\* two records in state DRAFT made by one add_opendata_dids
C26_Witness ==
    /\ last = [op |-> "add_opendata_dids", did |-> 0, exc |-> "none"]
    /\ \A d \in Dids : od[d] = "DRAFT"


\* C27: add_opendata_did of a (scope, name) that is no DID of the catalog
\* raises DataIdentifierNotFound, and of one that is registered raises
\* OpenDataDataIdentifierAlreadyExists; both leave the three tables as they
\* were.
C27_AddErrors ==
    [][\A d \in Dids :
          AddOpendataDid(d) =>
              /\ catalog[d] = "absent" =>
                    /\ last'.exc = "DataIdentifierNotFound"
                    /\ od' = od /\ od_doi' = od_doi /\ od_meta' = od_meta
              /\ od[d] # "none" =>
                    /\ last'.exc = "OpenDataDataIdentifierAlreadyExists"
                    /\ od' = od /\ od_doi' = od_doi /\ od_meta' = od_meta]_vars

\* a PUBLIC record whose second registration has just been refused
C27_Witness ==
    \E d \in Dids :
        /\ od[d] = "PUBLIC"
        /\ last = [op |-> "add_opendata_did", did |-> d,
                   exc |-> "OpenDataDataIdentifierAlreadyExists"]


\* C28: delete_opendata_did of a (scope, name) that is not registered raises
\* OpenDataDataIdentifierNotFound and changes nothing; of a DRAFT record, the
\* state add_opendata_did leaves, it returns, and then get_opendata_did
\* raises OpenDataDataIdentifierNotFound and the (scope, name) is again not
\* registered, so that a second delete raises too and a new add_opendata_did
\* returns with a DRAFT record. The outcomes depend on the tables only, so
\* the pair can be repeated.
C28_AddDeleteRoundTrip ==
    [][\A d \in Dids :
          /\ (od[d] = "none" /\ DeleteOpendataDid(d)) =>
                /\ last'.exc = "OpenDataDataIdentifierNotFound"
                /\ od' = od /\ od_doi' = od_doi /\ od_meta' = od_meta
          /\ (od[d] = "DRAFT" /\ DeleteOpendataDid(d)) =>
                /\ last'.exc = "none"
                /\ od'[d] = "none"
                /\ get_opendata_did(d, "none", FALSE, TRUE)'.exc
                      = "OpenDataDataIdentifierNotFound"
          /\ (od[d] = "none" /\ catalog[d] # "absent" /\ AddOpendataDid(d)) =>
                last'.exc = "none" /\ od'[d] = "DRAFT"]_vars

\* a record that was added and that delete_opendata_did has just removed:
\* get_opendata_did raises
C28_Witness ==
    \E d \in Dids :
        /\ last = [op |-> "delete_opendata_did", did |-> d, exc |-> "none"]
        /\ od[d] = "none"
        /\ get_opendata_did(d, "none", FALSE, TRUE).exc = "OpenDataDataIdentifierNotFound"


\* the (scope, name) whose record is PUBLIC
PublicNow == {d \in Dids : od[d] = "PUBLIC"}

\* C29: whatever calls were made, list_opendata_dids(state=PUBLIC) and the
\* public REST listing of a request without limit and offset return exactly
\* the (scope, name) whose record is PUBLIC now; with a limit or an offset
\* they return some of these; in no case one that is DRAFT, SUSPENDED or
\* not registered, and a record leaves the listing with the step that makes
\* it SUSPENDED.
C29_PublicListing ==
    /\ [](/\ list_opendata_dids(None, None, "PUBLIC") = {PublicNow}
          /\ OpenDataPublicView(None, None) = {PublicNow}
          /\ \A limit, offset \in Paging :
                /\ \A dids \in list_opendata_dids(limit, offset, "PUBLIC") :
                      dids \subseteq PublicNow
                /\ OpenDataPublicView(limit, offset)
                      = list_opendata_dids(limit, offset, "PUBLIC"))
    /\ [][\A d \in Dids :
             (od[d] = "PUBLIC" /\ od'[d] = "SUSPENDED") =>
                 /\ \A dids \in OpenDataPublicView(None, None) : d \in dids
                 /\ \A dids \in OpenDataPublicView(None, None)' : d \notin dids]_vars

\* one record is PUBLIC and listed, the other is not listed: it has just been
\* made SUSPENDED
C29_Witness ==
    \E d, e \in Dids :
        /\ od[d] = "PUBLIC" /\ od[e] = "SUSPENDED"
        /\ OpenDataPublicView(None, None) = {{d}}
        /\ last = [op |-> "update_opendata_state", did |-> e, exc |-> "none"]


\* a call of update_opendata_did with doi alone, or of update_opendata_doi
WritesDoi(d, doi) ==
    \/ UpdateOpendataDoi(d, doi)
    \/ UpdateOpendataDid(d, "none", NoMetaArg, doi)

\* the DOI both reads return for d is c
ReadsDoi(d, c) ==
    /\ get_opendata_doi(d) = c
    /\ get_opendata_did(d, "none", FALSE, TRUE).exc = "none"
    /\ get_opendata_did(d, "none", FALSE, TRUE).val.doi = c

\* C30 (as claimed): on a registered record, a write of a string that has
\* the format 10.<4 to 9 digits>/<suffix> returns and both reads return that
\* string, whatever DOI was stored before; a write of a string that has not
\* the format raises InputValidationError and leaves the stored DOI.
C30_DoiRoundTrip ==
    [][\A d \in Dids : \A doi \in DoiArgs :
          (od[d] # "none" /\ doi.given /\ doi.str /\ WritesDoi(d, doi)) =>
              IF MatchesWhole(doi.chars)
              THEN last'.exc = "none" /\ ReadsDoi(d, doi.chars)'
              ELSE last'.exc = "InputValidationError" /\ od_doi' = od_doi]_vars

\* what holds: the same with 'is accepted by match()' for 'has the format'
DoiRoundTripAsMatched ==
    [][\A d \in Dids : \A doi \in DoiArgs :
          (od[d] # "none" /\ doi.given /\ doi.str /\ WritesDoi(d, doi)) =>
              IF MatchesDoi(doi.chars)
              THEN last'.exc = "none" /\ ReadsDoi(d, doi.chars)'
              ELSE last'.exc = "InputValidationError" /\ od_doi' = od_doi]_vars

\* a stored DOI that has not the format
DoiNewlineStored == \E d \in Dids : od[d] # "none" /\ ReadsDoi(d, DoiNewline)

\* a stored DOI that replaced another one
DoiReplaced ==
    \E d \in Dids :
        /\ ReadsDoi(d, DoiB)
        /\ last = [op |-> "update_opendata_doi", did |-> d, exc |-> "none"]


\* C31: get_opendata_meta of a registered record without a metadata row
\* returns the empty dict, and update_opendata_did(meta=m) with a dict m on a
\* registered record returns and get_opendata_meta returns m after it,
\* whether there was a row (it is updated) or none (it is inserted).
C31_MetaRoundTrip ==
    /\ [](\A d \in Dids :
            (od[d] # "none" /\ od_meta[d] = "none") => get_opendata_meta(d) = "{}")
    /\ [][\A d \in Dids : \A meta \in MetaArgs :
             (/\ last'.op = "update_opendata_did"
              /\ od[d] # "none" /\ meta.given /\ meta.type = "dict"
              /\ UpdateOpendataDid(d, "none", meta, NoDoiArg)) =>
                 /\ last'.exc = "none"
                 /\ get_opendata_meta(d)' = meta.val
                 /\ od' = od /\ od_doi' = od_doi
                 /\ \A e \in Dids \ {d} : od_meta'[e] = od_meta[e]]_vars

\* a record whose metadata update_opendata_did has just written
C31_Witness ==
    \E d \in Dids :
        /\ od[d] # "none"
        /\ get_opendata_meta(d) = "M2"
        /\ last = [op |-> "update_opendata_did", did |-> d, exc |-> "none"]


\* the latest request was method on view for d
Answered(view, method, d) == last.op = view \o method /\ last.did = d

\* C32 (as claimed): POST for a (scope, name) that is no DID of the catalog
\* answers 404, for a DID that is not registered 201, and for a registered
\* one 409 with the tables unchanged. Where the status is left to
\* ErrorHandlingMethodView, the status claimed is taken to be the one it
\* answers.
C32_RestAdd ==
    [][\A view \in Views : \A d \in Dids :
          (Answered(view, ".post", d)' /\ Post(view, d)) =>
              \E status \in post(view, last'.exc) :
                  /\ catalog[d] = "absent" => status = 404
                  /\ (catalog[d] # "absent" /\ od[d] = "none") => status = 201
                  /\ od[d] # "none" =>
                        /\ status = 409
                        /\ od' = od /\ od_doi' = od_doi /\ od_meta' = od_meta]_vars

\* what holds: 201 for a DID that is not registered; for a registered one
\* the tables are unchanged and OpenDataPrivateDIDsView answers 404
RestAddAsCoded ==
    [][\A view \in Views : \A d \in Dids :
          (Answered(view, ".post", d)' /\ Post(view, d)) =>
              /\ (catalog[d] # "absent" /\ od[d] = "none") =>
                    post(view, last'.exc) = {201}
              /\ od[d] # "none" =>
                    /\ od' = od /\ od_doi' = od_doi /\ od_meta' = od_meta
                    /\ view = "OpenDataPrivateDIDsView" => post(view, last'.exc) = {404}]_vars

\* a second POST to OpenDataPrivateDIDsView has been answered
RestSecondPost ==
    \E d \in Dids :
        /\ Answered("OpenDataPrivateDIDsView", ".post", d)
        /\ last.exc = "OpenDataDataIdentifierAlreadyExists"
        /\ post("OpenDataPrivateDIDsView", last.exc) = {404}


\* C33 (as claimed): DELETE of a registered record that can be deleted
\* answers 204, and DELETE of a (scope, name) that is not registered answers
\* 404. Where the status is left to ErrorHandlingMethodView, the status
\* claimed is taken to be the one it answers.
C33_RestDelete ==
    [][\A view \in Views : \A d \in Dids :
          (Answered(view, ".delete", d)' /\ Delete(view, d)) =>
              \E status \in delete(view, last'.exc) :
                  /\ od[d] = "DRAFT" =>
                        status = 204 /\ remove_opendata_did(status) = "True"
                  /\ od[d] = "none" => status = 404]_vars

\* what holds: a DRAFT record is deleted and both views answer 200; nothing
\* is deleted for a (scope, name) that is not registered
RestDeleteAsCoded ==
    [][\A view \in Views : \A d \in Dids :
          (Answered(view, ".delete", d)' /\ Delete(view, d)) =>
              /\ od[d] = "DRAFT" =>
                    /\ od'[d] = "none"
                    /\ delete(view, last'.exc) = {200}
                    /\ remove_opendata_did(200) = "raises"
              /\ od[d] = "none" =>
                    /\ last'.exc = "OpenDataDataIdentifierNotFound"
                    /\ od' = od]_vars

\* a DELETE that removed a record has been answered
RestDeleted ==
    \E view \in Views : \E d \in Dids :
        /\ Answered(view, ".delete", d)
        /\ last.exc = "none" /\ od[d] = "none"
        /\ delete(view, last.exc) = {200}


\* C34: with the Event set, an instance that is inside a cycle changes only
\* by handling its next chunk, as it would with the Event clear: the chunks
\* left are those after the handled one, unless the chunk failed with an
\* exception that ends the cycle; no instance ends between two chunks
\* because of the Event, and none begins a cycle once it is set.
C34_StopAtLoopBoundary ==
    [][\A i \in Workers :
          /\ (graceful_stop /\ inst[i].st = "chunks" /\ inst'[i] # inst[i]) =>
                /\ \E e \in {Ok} \cup Failures : FleetDelete(i, e)
                /\ \/ inst'[i].todo = Tail(inst[i].todo)
                   \/ \E e \in Failures : Classify(e) = "abort" /\ FleetDelete(i, e)
                /\ inst'[i].todo # <<>> => inst'[i].st = "chunks"
          /\ (graceful_stop /\ inst[i].st = "loop" /\ inst'[i] # inst[i]) =>
                inst'[i].st = "dead"]_vars

\* the Event is set and an instance stands between two chunks of its cycle
C34_Witness ==
    \E i \in Workers :
        /\ graceful_stop
        /\ inst[i].st = "chunks"
        /\ Len(inst[i].todo) = 1
        /\ batch_max > 0


\* C35: paused_dids changes in two places only. The refresh at the start of
\* a cycle only removes entries, whatever list_expired_dids does afterwards.
\* A chunk on which delete_dids raised a lock conflict gives every key of
\* the chunk an entry and leaves every other entry as it was. A chunk that
\* succeeded, raised RuleNotFound, raised another database error or raised
\* an exception that ends the cycle leaves the dict as it was. So a key
\* enters the dict only with a chunk of this instance that failed with a
\* lock conflict.
LastCall == calls'[Len(calls')]
Restricts(q, p) == DOMAIN q \subseteq DOMAIN p /\ \A k \in DOMAIN q : q[k] = p[k]
C35_LedgerFrame ==
    [][/\ cycles' # cycles => Restricts(paused_dids', paused_dids)
       /\ (cycles' = cycles /\ calls' = calls) => paused_dids' = paused_dids
       /\ calls' # calls /\ cycles' = cycles =>
            IF LastCall.kind = "lock"
            THEN /\ DOMAIN paused_dids' = DOMAIN paused_dids \cup Range(LastCall.chunk)
                 /\ \A k \in DOMAIN paused_dids \ Range(LastCall.chunk) :
                        paused_dids'[k] = paused_dids[k]
                 /\ LastCall.chunk = Head(todo)
            ELSE paused_dids' = paused_dids]_vars

\* a lock conflict on a chunk has added a key to a dict that held another
\* chunk's key, and a later refresh has removed an entry
C35_Witness ==
    /\ cycles = 2
    /\ Len(calls) >= 1
    /\ calls[Len(calls)].kind = "lock"
    /\ \E k \in DOMAIN paused_dids : k \notin Range(calls[Len(calls)].chunk)
    /\ \E k \in DOMAIN ledger_in : k \notin DOMAIN paused0


\* C36: delete_opendata_did of a record that is PUBLIC or SUSPENDED raises
\* OpenDataInvalidState and leaves the three tables as they were; and no
\* call (add, delete, any update) takes a record that is PUBLIC or SUSPENDED
\* to DRAFT or removes it: from the moment it is PUBLIC the record is there
\* and is PUBLIC or SUSPENDED.
C36_PublishedIsPermanent ==
    [][\A d \in Dids :
          od[d] \in {"PUBLIC", "SUSPENDED"} =>
             /\ od'[d] \in {"PUBLIC", "SUSPENDED"}
             /\ DeleteOpendataDid(d) =>
                   /\ last'.exc = "OpenDataInvalidState"
                   /\ od' = od /\ od_doi' = od_doi /\ od_meta' = od_meta]_vars

\* delete_opendata_did has just been refused on a record that was published
\* and then suspended
C36_Witness ==
    \E d \in Dids :
        /\ last = [op |-> "delete_opendata_did", did |-> d,
                   exc |-> "OpenDataInvalidState"]
        /\ od[d] = "SUSPENDED"


\* C37: a call of update_opendata_did that raises leaves the three tables as
\* they were, also when an update asked for in the same call had been
\* accepted before the one that was rejected; a call that returns has made
\* every update it was asked for. With none of state, meta and doi it raises
\* InputValidationError, and with one of them on a (scope, name) that is not
\* registered it raises OpenDataDataIdentifierNotFound.
C37_UpdateAllOrNothing ==
    [][\A d \in Dids :
          (last'.op = "update_opendata_did" /\ last'.did = d) =>
             /\ last'.exc # "none" =>
                   od' = od /\ od_doi' = od_doi /\ od_meta' = od_meta
             /\ UpdateOpendataDid(d, "none", NoMetaArg, NoDoiArg) =>
                   last'.exc = "InputValidationError"
             /\ (od[d] = "none" \/ last'.exc = "none") =>
                   \A state \in StateArgs : \A meta \in DidMetaArgs :
                   \A doi \in DidDoiArgs :
                      ((state # "none" \/ meta.given \/ doi.given)
                          /\ UpdateOpendataDid(d, state, meta, doi)) =>
                         IF od[d] = "none"
                         THEN last'.exc = "OpenDataDataIdentifierNotFound"
                         ELSE /\ state # "none" => od'[d] = state
                              /\ meta.given => od_meta'[d] = meta.val
                              /\ doi.given => od_doi'[d] = doi.chars]_vars

\* update_opendata_did has just raised InputValidationError on a DRAFT
\* record of a closed DID without metadata and DOI, and the call with PUBLIC,
\* a dict and a malformed DOI is one that ends so here: the state and the
\* metadata it had accepted are not there
C37_Witness ==
    \E d \in Dids :
        /\ last = [op |-> "update_opendata_did", did |-> d,
                   exc |-> "InputValidationError"]
        /\ od[d] = "DRAFT" /\ od_meta[d] = "none" /\ od_doi[d] = <<>>
        /\ ~PublicRefused(d)
        /\ LET r == update_opendata_did(Tables, d, "PUBLIC",
                        [given |-> TRUE, type |-> "dict", val |-> "M1"],
                        [given |-> TRUE, str |-> TRUE, chars |-> DoiShort])
           IN  r.exc = "InputValidationError" /\ Transactional(Tables, r) = Tables

====
